---- MODULE Spec2Model ----
(***************************************************************************)
(* A model of package rstruct of jkaveri/ramda: string-addressed access to *)
(* the fields of Go struct values through package reflect.                 *)
(*                                                                         *)
(* A Go value is a record [t |-> its type, v |-> its payload].  A          *)
(* reflect.Value is a record [val, addr, ro]: the value, the addressable   *)
(* flag and the two read-only flags reflect derives from unexported        *)
(* fields.  Every operation of the package is an operator computed the     *)
(* way the Go code computes it, and an action of the state machine         *)
(* applies it to the caller's record.                                      *)
(***************************************************************************)
EXTENDS Integers, Sequences, FiniteSets, TLC

VARIABLES
    rec,    \* the caller's record, mutated in place by Set via &rec
    op,     \* the operation called last
    arg,    \* its arguments
    res,    \* what it returned (or that it panicked)
    prev,   \* the caller's record as it was before the last call
    nwrites,\* number of calls made so far that write the record
    heap,   \* what pointers, slices and maps refer to, by address
    copy    \* what Clone returned, Nil before it has

vars == <<rec, op, arg, res, prev, nwrites, heap, copy>>

----------------------------------------------------------------------------
(* Bounds *)

\* Set calls in one behaviour
MaxWrites == 1
\* segments in a field path
MaxPathLen == 3
\* entries in a map handed to FromMap
MaxEntries == 2
\* names in a list handed to Pick or Omit
MaxFields == 3
\* records handed to one call of Merge
MaxInputs == 3
\* assignments made to a record and its clone after Clone
MaxMutations == 2
\* elements of a slice handed to a slice function, and the values they take
MaxLen == 3
\* functions handed to Compose
MaxFns == 3
\* the argument of a composed function
MaxX == 5
\* calls of deepCopyValue the stack has room for
MaxDepth == 8

----------------------------------------------------------------------------
(* The types of the universe: the test types of struct_test.go (Address,   *)
(* User, Person with an embedded User and a field Address declared on both *)
(* levels) and, beside them, one field for each shape reflect treats       *)
(* differently: an interface field, a pointer field, a field of a defined  *)
(* slice type, an embedded struct of an unexported type and an unexported  *)
(* field.  Profile stands for PointerStruct and ComplexStruct of           *)
(* clone_test.go: a pointer, a slice of strings, a slice of pointers, a    *)
(* map of pointers and an interface, Address being its BasicStruct.  Node   *)
(* and locked are the types a value graph needs to lead back to itself: a  *)
(* struct with a pointer, a slice of pointers and a map of pointers to its *)
(* own type, and one with an unexported field before the pointer.          *)

Fld(n, t, emb, exp) == [name |-> n, type |-> t, embedded |-> emb, exported |-> exp]

StructTypes ==
    [ Address |-> << Fld("Street", "string", FALSE, TRUE),
                     Fld("City",   "string", FALSE, TRUE) >>,
      User    |-> << Fld("Name",    "string",  FALSE, TRUE),
                     Fld("Address", "Address", FALSE, TRUE) >>,
      creds   |-> << Fld("Token", "string", FALSE, TRUE),
                     Fld("pin",   "int",    FALSE, FALSE) >>,
      Person  |-> << Fld("User",    "User",     TRUE,  TRUE),
                     Fld("Address", "Address",  FALSE, TRUE),
                     Fld("Meta",    "any",      FALSE, TRUE),
                     Fld("Home",    "*Address", FALSE, TRUE),
                     Fld("Tags",    "Tags",     FALSE, TRUE),
                     Fld("creds",   "creds",    TRUE,  FALSE) >>,
      Profile |-> << Fld("Name",    "string",              FALSE, TRUE),
                     Fld("Home",    "*Address",            FALSE, TRUE),
                     Fld("Tags",    "[]string",            FALSE, TRUE),
                     Fld("Friends", "[]*Address",          FALSE, TRUE),
                     Fld("Data",    "map[string]*Address", FALSE, TRUE),
                     Fld("Meta",    "any",                 FALSE, TRUE) >>,
      Node    |-> << Fld("Name",    "string",           FALSE, TRUE),
                     Fld("Home",    "*Node",            FALSE, TRUE),
                     Fld("Friends", "[]*Node",          FALSE, TRUE),
                     Fld("Data",    "map[string]*Node", FALSE, TRUE) >>,
      locked  |-> << Fld("pin",     "int",     FALSE, FALSE),
                     Fld("Home",    "*locked", FALSE, TRUE) >> ]

StructNames == DOMAIN StructTypes

IsStruct(t) == t \in StructNames

\* reflect.Type.Kind
Kind(t) ==
    IF IsStruct(t) THEN "struct"
    ELSE CASE t = "string"   -> "string"
           [] t = "int"      -> "int"
           [] t = "bool"     -> "bool"
           [] t = "any"      -> "interface"
           [] t = "*Address" -> "ptr"
           [] t = "*Profile" -> "ptr"
           [] t = "*int"     -> "ptr"
           [] t = "*Node"    -> "ptr"
           [] t = "*locked"  -> "ptr"
           [] t = "[]string" -> "slice"
           [] t = "Tags"     -> "slice"
           [] t = "[]*Address" -> "slice"
           [] t = "map[string]*Address" -> "map"
           [] t = "[]*Node"  -> "slice"
           [] t = "map[string]*Node" -> "map"
           [] OTHER          -> "invalid"

\* type Tags []string is the one defined type with a type-literal underneath
Underlying(t) == IF t = "Tags" THEN "[]string" ELSE t

\* a named type: predeclared or declared by a type definition
Named(t) ==
    t \notin { "*Address", "*Profile", "*int", "[]string", "[]*Address",
               "map[string]*Address", "*Node", "*locked", "[]*Node",
               "map[string]*Node" }

NumField(t) == Len(StructTypes[t])

FieldNames(t) == [i \in 1..NumField(t) |-> StructTypes[t][i].name]

----------------------------------------------------------------------------
(* Values *)

Val(t, v) == [t |-> t, v |-> v]

\* the nil interface: an `any` that holds nothing
Nil == Val("nil", <<>>)

StrV(s)  == Val("string", s)
IntV(n)  == Val("int", n)

\* a slice payload is <<>> for nil and <<elements>> otherwise; an interface
\* payload is <<>> for nil and <<dynamic value>> otherwise; a pointer payload
\* is 0 for nil and an address otherwise.  Where the heap is modelled (Clone)
\* a slice or a map that is not nil holds the address of its backing store:
\* <<address>>.
RECURSIVE Zero(_)
Zero(t) ==
    IF IsStruct(t)
    THEN Val(t, [i \in 1..NumField(t) |-> Zero(StructTypes[t][i].type)])
    ELSE CASE Kind(t) = "string"    -> Val(t, "")
           [] Kind(t) = "int"       -> Val(t, 0)
           [] Kind(t) = "bool"      -> Val(t, FALSE)
           [] Kind(t) = "ptr"       -> Val(t, 0)
           [] Kind(t) = "slice"     -> Val(t, <<>>)
           [] Kind(t) = "map"       -> Val(t, <<>>)
           [] Kind(t) = "interface" -> Val(t, <<>>)

\* reflect.Value.IsZero
RECURSIVE IsZero(_)
IsZero(x) ==
    IF IsStruct(x.t)
    THEN \A i \in 1..NumField(x.t) : IsZero(x.v[i])
    ELSE x = Zero(x.t)

Addr(street, city) == Val("Address", << StrV(street), StrV(city) >>)
Usr(name, a)       == Val("User", << StrV(name), a >>)
Creds(token, pin)  == Val("creds", << StrV(token), IntV(pin) >>)
AnyOf(x)             == Val("any", IF x = Nil THEN <<>> ELSE <<x>>)
Ptr(a)             == Val("*Address", a)
Strings(s)         == Val("[]string", <<s>>)
TagsOf(s)          == Val("Tags", <<s>>)
Pers(u, a, m, h, tg, c) == Val("Person", << u, a, m, h, tg, c >>)

Alice ==
    Pers(Usr("a", Addr("a", "b")), Addr("b", "a"), AnyOf(IntV(1)),
         Ptr(1), TagsOf(<<"a">>), Creds("a", 1))

InitRecords == { Zero("Person"), Alice }

\* replacement values handed to Set and stored in maps handed to FromMap
Values ==
    { Nil, StrV(""), StrV("b"), IntV(1), Addr("b", "b"), Usr("b", Addr("", "b")),
      Strings(<<"b">>), Ptr(2) }

\* The heap is a sequence of cells and an address an index of it.  A cell is
\* the variable a pointer points to, the backing array of a slice or the
\* table of a map.
Var(x)   == [k |-> "var",   x |-> x]
Array(s) == [k |-> "array", x |-> s]
Table(m) == [k |-> "map",   x |-> m]

\* the Addresses the pointers Ptr(1) and Ptr(2) point to
HomeHeap == << Var(Addr("a", "b")), Var(Addr("b", "b")) >>

----------------------------------------------------------------------------
(* Field paths.  strings.Split(fieldName, ".") always yields at least one  *)
(* segment; a path is modelled by its segments.                            *)

\* a segment no type of the universe declares (as the empty segment of "")
Unknown == "Phone"

Segments ==
    UNION { { StructTypes[t][i].name : i \in 1..NumField(t) } : t \in StructNames }
        \cup { Unknown }

\* the paths of at most n segments that name declared fields up to their
\* last or next-to-last segment
RECURSIVE PathsIn(_, _)
PathsIn(t, n) ==
    { <<s>> : s \in Segments }
      \cup ( IF n <= 1 THEN {}
             ELSE UNION { LET f == StructTypes[t][i]
                              rest == IF IsStruct(f.type)
                                      THEN PathsIn(f.type, n - 1)
                                      ELSE { <<s>> : s \in Segments }
                          IN  { <<f.name>> \o q : q \in rest }
                          : i \in 1..NumField(t) }
                  \cup { <<Unknown, s>> : s \in Segments } )

Paths == PathsIn("Person", MaxPathLen)

----------------------------------------------------------------------------
(* package reflect *)

NoRO == [sticky |-> FALSE, embed |-> FALSE]

RV(x, addr, ro) == [val |-> x, addr |-> addr, ro |-> ro]

\* the zero reflect.Value
Invalid == RV(Nil, FALSE, NoRO)

KindOf(rv) == IF rv.val = Nil THEN "invalid" ELSE Kind(rv.val.t)

\* What the callers pass as obj: the record by value, a reference to it, a
\* nil reference or something that is not a record.  ValueOf(obj) followed by
\* the `if Kind() == Ptr { val = val.Elem() }` every entry point starts with.
Forms == { "value", "ref", "nilref", "scalar" }

Deref(form, r) ==
    CASE form = "value"  -> RV(r, FALSE, NoRO)
      [] form = "ref"    -> RV(r, TRUE, NoRO)
      [] form = "nilref" -> Invalid
      [] form = "scalar" -> RV(IntV(1), FALSE, NoRO)

\* reflect.Value.Field: the flags are inherited, but for the embedded
\* read-only flag, and an unexported field adds one of its own
Field(rv, i) ==
    LET f == StructTypes[rv.val.t][i]
    IN  RV(rv.val.v[i], rv.addr,
           [sticky |-> rv.ro.sticky \/ (~f.exported /\ ~f.embedded),
            embed  |-> ~f.exported /\ f.embedded])

CanSet(rv) == rv.addr /\ ~rv.ro.sticky /\ ~rv.ro.embed

CanInterface(rv) == ~rv.ro.sticky /\ ~rv.ro.embed

\* reflect.Value.Interface of a value that CanInterface: the value as an any;
\* an interface-typed field yields what it holds
Interface(rv) ==
    IF KindOf(rv) = "interface"
    THEN IF rv.val.v = <<>> THEN Nil ELSE rv.val.v[1]
    ELSE rv.val

\* AssignableTo with the type check left out
AssignableTo_Unchecked(from, to) == TRUE

\* reflect.Type.AssignableTo, from a concrete dynamic type
AssignableTo(from, to) ==
    \/ from = to
    \/ Kind(to) = "interface"
    \/ Underlying(from) = Underlying(to) /\ (~Named(from) \/ ~Named(to))

\* the value a field of type `to` holds after Set(x)
AssignTo(x, to) ==
    IF Kind(to) = "interface" THEN Val(to, <<x>>) ELSE Val(to, x.v)

\* index of the field the loop `for i := 0; i < val.NumField(); i++` stops at
FieldIndex(t, name) ==
    LET S == { i \in 1..NumField(t) : StructTypes[t][i].name = name }
    IN  IF S = {} THEN 0 ELSE CHOOSE i \in S : \A j \in S : i <= j

----------------------------------------------------------------------------
(* Get *)

GetRes(value, found, fault) == [value |-> value, found |-> found, fault |-> fault]

NotFound == GetRes(Nil, FALSE, FALSE)
GetPanic == GetRes(Nil, FALSE, TRUE)

RECURSIVE getNestedFieldRecursive(_, _)

\* getNestedFieldRecursive that stops at a field that is not a struct and
\* returns it, ignoring the segments left
getNestedFieldRecursive_Lenient(val, parts) ==
    IF Len(parts) = 0 THEN NotFound
    ELSE LET idx == FieldIndex(val.val.t, parts[1])
         IN  IF idx = 0 THEN NotFound
             ELSE LET field == Field(val, idx)
                  IN  IF Len(parts) = 1 \/ KindOf(field) # "struct"
                      THEN IF CanInterface(field)
                           THEN GetRes(Interface(field), TRUE, FALSE)
                           ELSE GetPanic
                      ELSE getNestedFieldRecursive(field, Tail(parts))

\* getNestedFieldRecursive that looks for a name it does not find among the
\* fields of the embedded structs, as reflect's FieldByName does
getNestedFieldRecursive_Promoting(val, parts) ==
    IF Len(parts) = 0 THEN NotFound
    ELSE LET idx == FieldIndex(val.val.t, parts[1])
             emb == { i \in 1..NumField(val.val.t) :
                        /\ StructTypes[val.val.t][i].embedded
                        /\ FieldIndex(StructTypes[val.val.t][i].type, parts[1]) # 0 }
         IN  IF idx = 0
             THEN IF emb = {} THEN NotFound
                  ELSE getNestedFieldRecursive(
                         Field(val, CHOOSE i \in emb : \A j \in emb : i <= j), parts)
             ELSE LET field == Field(val, idx)
                  IN  IF Len(parts) = 1
                      THEN IF CanInterface(field)
                           THEN GetRes(Interface(field), TRUE, FALSE)
                           ELSE GetPanic
                      ELSE IF KindOf(field) = "struct"
                           THEN getNestedFieldRecursive(field, Tail(parts))
                           ELSE NotFound

getNestedFieldRecursive(val, parts) ==
    IF Len(parts) = 0 THEN NotFound
    ELSE LET idx == FieldIndex(val.val.t, parts[1])
         IN  IF idx = 0 THEN NotFound
             ELSE LET field == Field(val, idx)
                  IN  IF Len(parts) = 1
                      THEN IF CanInterface(field)
                           THEN GetRes(Interface(field), TRUE, FALSE)
                           ELSE GetPanic
                      ELSE IF KindOf(field) = "struct"
                           THEN getNestedFieldRecursive(field, Tail(parts))
                           ELSE NotFound

\* Get without `if val.Kind() == reflect.Ptr { val = val.Elem() }`: a
\* reference is of kind Ptr, not Struct
Get_NoElem(form, r, parts) ==
    LET val == Deref(form, r)
    IN  IF KindOf(val) # "struct" \/ form = "ref" THEN NotFound
        ELSE getNestedFieldRecursive(val, parts)

Get(form, r, parts) ==
    LET val == Deref(form, r)
    IN  IF KindOf(val) # "struct" THEN NotFound
        ELSE getNestedFieldRecursive(val, parts)

----------------------------------------------------------------------------
(* Has *)

RECURSIVE hasNestedFieldRecursive(_, _)

\* hasNestedFieldRecursive that goes on, through a field that is a pointer
\* to a struct, in the struct it points to
hasNestedFieldRecursive_Deref(val, parts) ==
    IF Len(parts) = 0 THEN FALSE
    ELSE LET idx == FieldIndex(val.val.t, parts[1])
         IN  IF idx = 0 THEN FALSE
             ELSE LET field == Field(val, idx)
                  IN  IF Len(parts) = 1 THEN TRUE
                      ELSE IF KindOf(field) = "struct"
                           THEN hasNestedFieldRecursive(field, Tail(parts))
                           ELSE IF KindOf(field) = "ptr" /\ field.val.v # 0
                                THEN hasNestedFieldRecursive(
                                        RV(heap[field.val.v].x, TRUE, field.ro),
                                        Tail(parts))
                                ELSE FALSE

hasNestedFieldRecursive(val, parts) ==
    IF Len(parts) = 0 THEN FALSE
    ELSE LET idx == FieldIndex(val.val.t, parts[1])
         IN  IF idx = 0 THEN FALSE
             ELSE LET field == Field(val, idx)
                  IN  IF Len(parts) = 1 THEN TRUE
                      ELSE IF KindOf(field) = "struct"
                           THEN hasNestedFieldRecursive(field, Tail(parts))
                           ELSE FALSE

Has(form, r, parts) ==
    LET val == Deref(form, r)
    IN  IF KindOf(val) # "struct" THEN FALSE
        ELSE hasNestedFieldRecursive(val, parts)

----------------------------------------------------------------------------
(* Set *)

\* err is "" for a nil error; val is the struct as the call leaves it
SetRes(err, fault, x) == [err |-> err, fault |-> fault, val |-> x]

RECURSIVE setNestedFieldRecursive(_, _, _)

\* setNestedFieldRecursive that descends into a new struct of the field's
\* type instead of the field itself
setNestedFieldRecursive_Fresh(val, parts, value) ==
    IF Len(parts) = 0 THEN SetRes("empty field path", FALSE, val.val)
    ELSE LET idx == FieldIndex(val.val.t, parts[1])
         IN  IF idx = 0 THEN SetRes("field not found", FALSE, val.val)
             ELSE LET field == Field(val, idx)
                  IN  IF Len(parts) = 1
                      THEN IF value = Nil
                           THEN SetRes("", TRUE, val.val)
                           ELSE IF AssignableTo(value.t, field.val.t)
                                THEN IF CanSet(field)
                                     THEN SetRes("", FALSE,
                                            Val(val.val.t,
                                                [val.val.v EXCEPT ![idx] =
                                                    AssignTo(value, field.val.t)]))
                                     ELSE SetRes("", TRUE, val.val)
                                ELSE SetRes("cannot assign value", FALSE, val.val)
                      ELSE IF KindOf(field) = "struct"
                           THEN IF CanSet(field)
                                THEN LET sub == setNestedFieldRecursive(
                                                  RV(Zero(field.val.t), field.addr, field.ro),
                                                  Tail(parts), value)
                                     IN  SetRes(sub.err, sub.fault,
                                            IF sub.err = "" /\ ~sub.fault
                                            THEN Val(val.val.t,
                                                     [val.val.v EXCEPT ![idx] = sub.val])
                                            ELSE val.val)
                                ELSE SetRes("field is not settable", FALSE, val.val)
                           ELSE SetRes("field is not a struct", FALSE, val.val)

setNestedFieldRecursive(val, parts, value) ==
    IF Len(parts) = 0 THEN SetRes("empty field path", FALSE, val.val)
    ELSE LET idx == FieldIndex(val.val.t, parts[1])
         IN  IF idx = 0 THEN SetRes("field not found", FALSE, val.val)
             ELSE LET field == Field(val, idx)
                  IN  IF Len(parts) = 1
                      THEN IF value = Nil
                           THEN SetRes("", TRUE, val.val)
                           ELSE IF AssignableTo(value.t, field.val.t)
                                THEN IF CanSet(field)
                                     THEN SetRes("", FALSE,
                                            Val(val.val.t,
                                                [val.val.v EXCEPT ![idx] =
                                                    AssignTo(value, field.val.t)]))
                                     ELSE SetRes("", TRUE, val.val)
                                ELSE SetRes("cannot assign value", FALSE, val.val)
                      ELSE IF KindOf(field) = "struct"
                           THEN IF CanSet(field)
                                THEN LET sub == setNestedFieldRecursive(field, Tail(parts), value)
                                     IN  SetRes(sub.err, sub.fault,
                                            Val(val.val.t,
                                                [val.val.v EXCEPT ![idx] = sub.val]))
                                ELSE SetRes("field is not settable", FALSE, val.val)
                           ELSE SetRes("field is not a struct", FALSE, val.val)

Set(form, r, parts, value) ==
    LET val == Deref(form, r)
    IN  IF KindOf(val) # "struct"
        THEN SetRes("cannot set field on non-struct type", FALSE, r)
        ELSE setNestedFieldRecursive(val, parts, value)

----------------------------------------------------------------------------
(* Fields *)

\* the names of the fields of t from field i on, an embedded struct giving
\* the names of its own fields
RECURSIVE PromotedNames(_, _)
PromotedNames(t, i) ==
    IF i > NumField(t) THEN <<>>
    ELSE LET f == StructTypes[t][i]
         IN  (IF f.embedded /\ IsStruct(f.type)
              THEN PromotedNames(f.type, 1)
              ELSE <<f.name>>) \o PromotedNames(t, i + 1)

\* Fields that lists the fields of embedded structs in their place, as
\* reflect.VisibleFields would
Fields_Promoted(form, r) ==
    LET val == Deref(form, r)
    IN  IF KindOf(val) # "struct" THEN <<>>
        ELSE PromotedNames(val.val.t, 1)

Fields(form, r) ==
    LET val == Deref(form, r)
    IN  IF KindOf(val) # "struct" THEN <<>>
        ELSE [i \in 1..NumField(val.val.t) |-> StructTypes[val.val.t][i].name]

----------------------------------------------------------------------------
(* ToMap: a Go map is a function from its keys *)

\* ToMap without the test for zero values
ToMap_KeepsZero(form, r) ==
    LET val == Deref(form, r)
    IN  IF KindOf(val) # "struct" THEN << >>
        ELSE LET t    == val.val.t
                 kept == { i \in 1..NumField(t) : CanInterface(Field(val, i)) }
             IN  [ n \in { StructTypes[t][i].name : i \in kept } |->
                     Interface(Field(val, FieldIndex(t, n))) ]

ToMap(form, r) ==
    LET val == Deref(form, r)
    IN  IF KindOf(val) # "struct" THEN << >>
        ELSE LET t    == val.val.t
                 kept == { i \in 1..NumField(t) :
                             /\ ~IsZero(Field(val, i).val)
                             /\ CanInterface(Field(val, i)) }
             IN  [ n \in { StructTypes[t][i].name : i \in kept } |->
                     Interface(Field(val, FieldIndex(t, n))) ]

----------------------------------------------------------------------------
(* FromMap *)

FromRes(x, ok, fault) == [val |-> x, ok |-> ok, fault |-> fault]

\* the loop over the fields of the new record, from field i on
RECURSIVE fromMapLoop(_, _, _)
fromMapLoop(obj, data, i) ==
    IF i > NumField(obj.t) THEN FromRes(obj, TRUE, FALSE)
    ELSE LET name  == StructTypes[obj.t][i].name
             field == Field(RV(obj, TRUE, NoRO), i)
         IN  IF name \in DOMAIN data
             THEN IF data[name] = Nil
                  THEN FromRes(obj, FALSE, TRUE)
                  ELSE IF AssignableTo(data[name].t, field.val.t)
                       THEN IF CanSet(field)
                            THEN fromMapLoop(
                                   Val(obj.t, [obj.v EXCEPT ![i] =
                                                 AssignTo(data[name], field.val.t)]),
                                   data, i + 1)
                            ELSE FromRes(obj, FALSE, TRUE)
                       ELSE fromMapLoop(obj, data, i + 1)
             ELSE fromMapLoop(obj, data, i + 1)

\* T is the type argument
FromMap(T, data) ==
    IF Kind(T) # "struct" THEN FromRes(Zero(T), FALSE, FALSE)
    ELSE fromMapLoop(Zero(T), data, 1)

\* the type arguments FromMap is instantiated with
TargetTypes == StructNames \cup { "int" }

\* the maps of at most MaxEntries entries whose keys are the field names of
\* the target type and one name it does not declare
MapsFor(T) ==
    LET names == (IF IsStruct(T)
                  THEN { StructTypes[T][i].name : i \in 1..NumField(T) }
                  ELSE { "Name" }) \cup { Unknown }
        keys  == { K \in SUBSET names : Cardinality(K) <= MaxEntries }
    IN  UNION { [K -> Values] : K \in keys }

----------------------------------------------------------------------------
(* Pick, Omit and Merge *)

\* a field name in another case than the declaration's
Lower == "address"

PtrTo(t) == "*" \o t

\* the argument as the callee receives it, for a record r and a form
Passed(form, r) ==
    CASE form = "value"  -> r
      [] form = "ref"    -> r
      [] form = "nilref" -> Val(PtrTo(r.t), 0)
      [] form = "scalar" -> IntV(1)

\* `var zero T` for the type argument the form of the call fixes
ZeroT(form, r) ==
    CASE form = "value"  -> Zero(r.t)
      [] form = "ref"    -> Val(PtrTo(r.t), 0)
      [] form = "nilref" -> Val(PtrTo(r.t), 0)
      [] form = "scalar" -> IntV(0)

\* val is the value returned, the record pointed to when a pointer is returned
SelRes(x, fault) == [val |-> x, fault |-> fault]

\* fieldSet: the map[string]bool built from the list
FieldSet(fields) == { fields[k] : k \in 1..Len(fields) }

\* the loop `newVal.Field(i).Set(field)` over the fields the test keeps,
\* from field i on; Value.Set panics unless the target can be set and the
\* source was not reached through an unexported field
RECURSIVE copyFields(_, _, _, _)
copyFields(val, newObj, keep, i) ==
    IF i > NumField(val.val.t) THEN SelRes(newObj, FALSE)
    ELSE IF i \in keep
         THEN LET field  == Field(val, i)
                  target == Field(RV(newObj, TRUE, NoRO), i)
              IN  IF CanSet(target) /\ CanInterface(field)
                  THEN copyFields(val,
                                  Val(newObj.t, [newObj.v EXCEPT ![i] = field.val]),
                                  keep, i + 1)
                  ELSE SelRes(newObj, TRUE)
         ELSE copyFields(val, newObj, keep, i + 1)

\* newVal.Interface().(T): the new struct is no T when T is a pointer type
AssertT(form, out) ==
    IF out.fault \/ form = "value" THEN out ELSE SelRes(out.val, TRUE)

Pick(form, r, fields) ==
    LET val == Deref(form, r)
    IN  IF KindOf(val) # "struct" THEN SelRes(ZeroT(form, r), FALSE)
        ELSE LET t == val.val.t
             IN  AssertT(form,
                   copyFields(val, Zero(t),
                              { i \in 1..NumField(t) :
                                  StructTypes[t][i].name \in FieldSet(fields) }, 1))

Omit(form, r, fields) ==
    LET val == Deref(form, r)
    IN  IF KindOf(val) # "struct" THEN SelRes(ZeroT(form, r), FALSE)
        ELSE LET t == val.val.t
             IN  AssertT(form,
                   copyFields(val, Zero(t),
                              { i \in 1..NumField(t) :
                                  StructTypes[t][i].name \notin FieldSet(fields) }, 1))

\* the loop over the fields of structs[i], from field j on: a field that is
\* not zero is set in the result.  resultVal is ValueOf(&result).Elem(): the
\* struct itself when T is a struct type, a pointer, of which FieldByName
\* panics, when T is a pointer type.
RECURSIVE mergeFields(_, _, _, _)
mergeFields(form, result, val, j) ==
    IF j > NumField(val.val.t) THEN SelRes(result, FALSE)
    ELSE LET field == Field(val, j)
         IN  IF ~IsZero(field.val)
             THEN IF form # "value" THEN SelRes(result, TRUE)
                  ELSE LET idx    == FieldIndex(result.t, StructTypes[val.val.t][j].name)
                           target == Field(RV(result, TRUE, NoRO), idx)
                       IN  IF CanSet(target) /\ CanInterface(field)
                           THEN mergeFields(form,
                                            Val(result.t, [result.v EXCEPT ![idx] = field.val]),
                                            val, j + 1)
                           ELSE SelRes(result, TRUE)
             ELSE mergeFields(form, result, val, j + 1)

\* the loop `for i := 1; i < len(structs); i++`
RECURSIVE mergeLoop(_, _, _, _)
mergeLoop(form, result, structs, i) ==
    IF i > Len(structs) THEN SelRes(result, FALSE)
    ELSE LET val == Deref(form, structs[i])
         IN  IF KindOf(val) # "struct"
             THEN mergeLoop(form, result, structs, i + 1)
             ELSE LET one == mergeFields(form, result, val, 1)
                  IN  IF one.fault THEN one
                      ELSE mergeLoop(form, one.val, structs, i + 1)

\* Merge without the return of a single input as it is
Merge_NoSingle(form, T, structs) ==
    IF Len(structs) <= 1 THEN SelRes(ZeroT(form, Zero(T)), FALSE)
    ELSE mergeLoop(form, Passed(form, structs[1]), structs, 2)

\* T is the struct type the type argument is, or points to
Merge(form, T, structs) ==
    IF Len(structs) = 0 THEN SelRes(ZeroT(form, Zero(T)), FALSE)
    ELSE IF Len(structs) = 1 THEN SelRes(Passed(form, structs[1]), FALSE)
    ELSE mergeLoop(form, Passed(form, structs[1]), structs, 2)

\* the records Pick, Omit and Merge are called with
Bob ==
    Pers(Usr("b", Zero("Address")), Zero("Address"), AnyOf(Nil),
         Ptr(2), Zero("Tags"), Zero("creds"))

SelRecords ==
    { Zero("Person"), Alice, Bob,
      Zero("User"), Usr("a", Addr("a", "b")), Usr("b", Zero("Address")),
      Usr("", Addr("", "a")),
      Zero("Address"), Addr("a", "b"), Addr("", "a"),
      Creds("a", 1), Creds("b", 0) }

\* the lists of at most MaxFields names: the fields of t, a name t does not
\* declare and a name that differs from a field's by case
FieldLists(t) ==
    LET names == { StructTypes[t][i].name : i \in 1..NumField(t) } \cup { Unknown, Lower }
    IN  UNION { [1..n -> names] : n \in 0..MaxFields }

\* the argument lists of at most MaxInputs records of type t
InputLists(t) ==
    UNION { [1..n -> { r \in SelRecords : r.t = t }] : n \in 0..MaxInputs }

----------------------------------------------------------------------------
(* Clone.  reflect.New, MakeSlice and MakeMap append a cell to the heap.    *)

\* val is the copy, heap the heap with the cells the copy allocated
CopyRes(x, h, fault) == [val |-> x, heap |-> h, fault |-> fault]

RECURSIVE deepCopyValue(_, _)
RECURSIVE deepCopyFields(_, _, _, _)
RECURSIVE deepCopyElems(_, _, _, _, _)
RECURSIVE deepCopyEntries(_, _, _, _, _)

\* the loop of case reflect.Struct, from field i on: Value.Set panics on a
\* field of newStruct that is unexported
deepCopyFields(val, newStruct, h, i) ==
    IF i > NumField(val.val.t) THEN CopyRes(newStruct, h, FALSE)
    ELSE LET sub    == deepCopyValue(Field(val, i), h)
             target == Field(RV(newStruct, TRUE, NoRO), i)
         IN  IF sub.fault THEN CopyRes(newStruct, h, TRUE)
             ELSE IF ~CanSet(target) THEN CopyRes(newStruct, h, TRUE)
             ELSE deepCopyFields(val,
                                 Val(newStruct.t, [newStruct.v EXCEPT ![i] = sub.val]),
                                 sub.heap, i + 1)

\* the loop of case reflect.Slice with `newSlice.Index(i).Set(val.Index(i))`:
\* the elements are assigned, not copied
deepCopyElems_Assign(ro, elems, newElems, h, i) ==
    CopyRes(elems, h, FALSE)

\* the loop of case reflect.Slice, from element i on; ro are the read-only
\* flags val.Index(i) inherits
deepCopyElems(ro, elems, newElems, h, i) ==
    IF i > Len(elems) THEN CopyRes(newElems, h, FALSE)
    ELSE LET sub == deepCopyValue(RV(elems[i], TRUE, ro), h)
         IN  IF sub.fault THEN CopyRes(newElems, h, TRUE)
             ELSE deepCopyElems(ro, elems, Append(newElems, sub.val), sub.heap, i + 1)

\* the loop of case reflect.Map over the keys left; the keys are strings and
\* the order of MapKeys decides but which address a copy gets
deepCopyEntries(ro, table, newTable, keys, h) ==
    IF keys = {} THEN CopyRes(newTable, h, FALSE)
    ELSE LET key == CHOOSE k \in keys : TRUE
             sub == deepCopyValue(RV(table[key], FALSE, ro), h)
         IN  IF sub.fault THEN CopyRes(newTable, h, TRUE)
             ELSE deepCopyEntries(ro, table,
                                  [k \in DOMAIN newTable \cup { key } |->
                                      IF k = key THEN sub.val ELSE newTable[k]],
                                  keys \ { key }, sub.heap)

\* deepCopyValue that returns a pointer as it is, as a copy of the struct by
\* assignment does
deepCopyValue_Shallow(val, h) ==
    CASE KindOf(val) = "invalid" -> CopyRes(Nil, h, FALSE)
      [] KindOf(val) = "ptr" -> CopyRes(val.val, h, FALSE)
      [] KindOf(val) = "struct" ->
            deepCopyFields(val, Zero(val.val.t), h, 1)
      [] KindOf(val) = "slice" ->
            IF val.val.v = <<>> THEN CopyRes(Zero(val.val.t), h, FALSE)
            ELSE LET n == deepCopyElems(val.ro, h[val.val.v[1]].x, <<>>, h, 1)
                 IN  IF n.fault THEN CopyRes(Nil, h, TRUE)
                     ELSE CopyRes(Val(val.val.t, << Len(n.heap) + 1 >>),
                                  Append(n.heap, Array(n.val)), FALSE)
      [] KindOf(val) = "map" ->
            IF val.val.v = <<>> THEN CopyRes(Zero(val.val.t), h, FALSE)
            ELSE LET table == h[val.val.v[1]].x
                     n == deepCopyEntries(val.ro, table, << >>, DOMAIN table, h)
                 IN  IF n.fault THEN CopyRes(Nil, h, TRUE)
                     ELSE CopyRes(Val(val.val.t, << Len(n.heap) + 1 >>),
                                  Append(n.heap, Table(n.val)), FALSE)
      [] KindOf(val) = "interface" ->
            IF val.val.v = <<>> THEN CopyRes(Zero(val.val.t), h, FALSE)
            ELSE LET elem == deepCopyValue(RV(val.val.v[1], FALSE, val.ro), h)
                 IN  IF elem.fault THEN CopyRes(Nil, h, TRUE)
                     ELSE CopyRes(Val(val.val.t, << elem.val >>), elem.heap, FALSE)
      [] OTHER ->
            IF CanInterface(val) THEN CopyRes(val.val, h, FALSE)
            ELSE CopyRes(Nil, h, TRUE)

\* deepCopyValue without the test `if val.IsNil()` of case reflect.Slice:
\* MakeSlice makes an empty slice of a nil one
deepCopyValue_NoNilTest(val, h) ==
    CASE KindOf(val) = "invalid" -> CopyRes(Nil, h, FALSE)
      [] KindOf(val) = "ptr" ->
            IF val.val.v = 0 THEN CopyRes(Zero(val.val.t), h, FALSE)
            ELSE LET elem == deepCopyValue(RV(h[val.val.v].x, TRUE, val.ro), h)
                 IN  IF elem.fault THEN CopyRes(Nil, h, TRUE)
                     ELSE CopyRes(Val(val.val.t, Len(elem.heap) + 1),
                                  Append(elem.heap, Var(elem.val)), FALSE)
      [] KindOf(val) = "struct" ->
            deepCopyFields(val, Zero(val.val.t), h, 1)
      [] KindOf(val) = "slice" ->
            LET elems == IF val.val.v = <<>> THEN <<>> ELSE h[val.val.v[1]].x
                n     == deepCopyElems(val.ro, elems, <<>>, h, 1)
            IN   IF n.fault THEN CopyRes(Nil, h, TRUE)
                     ELSE CopyRes(Val(val.val.t, << Len(n.heap) + 1 >>),
                                  Append(n.heap, Array(n.val)), FALSE)
      [] KindOf(val) = "map" ->
            IF val.val.v = <<>> THEN CopyRes(Zero(val.val.t), h, FALSE)
            ELSE LET table == h[val.val.v[1]].x
                     n == deepCopyEntries(val.ro, table, << >>, DOMAIN table, h)
                 IN  IF n.fault THEN CopyRes(Nil, h, TRUE)
                     ELSE CopyRes(Val(val.val.t, << Len(n.heap) + 1 >>),
                                  Append(n.heap, Table(n.val)), FALSE)
      [] KindOf(val) = "interface" ->
            IF val.val.v = <<>> THEN CopyRes(Zero(val.val.t), h, FALSE)
            ELSE LET elem == deepCopyValue(RV(val.val.v[1], FALSE, val.ro), h)
                 IN  IF elem.fault THEN CopyRes(Nil, h, TRUE)
                     ELSE CopyRes(Val(val.val.t, << elem.val >>), elem.heap, FALSE)
      [] OTHER ->
            IF CanInterface(val) THEN CopyRes(val.val, h, FALSE)
            ELSE CopyRes(Nil, h, TRUE)

deepCopyValue(val, h) ==
    CASE KindOf(val) = "invalid" -> CopyRes(Nil, h, FALSE)
      [] KindOf(val) = "ptr" ->
            IF val.val.v = 0 THEN CopyRes(Zero(val.val.t), h, FALSE)
            ELSE LET elem == deepCopyValue(RV(h[val.val.v].x, TRUE, val.ro), h)
                 IN  IF elem.fault THEN CopyRes(Nil, h, TRUE)
                     ELSE CopyRes(Val(val.val.t, Len(elem.heap) + 1),
                                  Append(elem.heap, Var(elem.val)), FALSE)
      [] KindOf(val) = "struct" ->
            deepCopyFields(val, Zero(val.val.t), h, 1)
      [] KindOf(val) = "slice" ->
            IF val.val.v = <<>> THEN CopyRes(Zero(val.val.t), h, FALSE)
            ELSE LET n == deepCopyElems(val.ro, h[val.val.v[1]].x, <<>>, h, 1)
                 IN  IF n.fault THEN CopyRes(Nil, h, TRUE)
                     ELSE CopyRes(Val(val.val.t, << Len(n.heap) + 1 >>),
                                  Append(n.heap, Array(n.val)), FALSE)
      [] KindOf(val) = "map" ->
            IF val.val.v = <<>> THEN CopyRes(Zero(val.val.t), h, FALSE)
            ELSE LET table == h[val.val.v[1]].x
                     n == deepCopyEntries(val.ro, table, << >>, DOMAIN table, h)
                 IN  IF n.fault THEN CopyRes(Nil, h, TRUE)
                     ELSE CopyRes(Val(val.val.t, << Len(n.heap) + 1 >>),
                                  Append(n.heap, Table(n.val)), FALSE)
      [] KindOf(val) = "interface" ->
            IF val.val.v = <<>> THEN CopyRes(Zero(val.val.t), h, FALSE)
            ELSE LET elem == deepCopyValue(RV(val.val.v[1], FALSE, val.ro), h)
                 IN  IF elem.fault THEN CopyRes(Nil, h, TRUE)
                     ELSE CopyRes(Val(val.val.t, << elem.val >>), elem.heap, FALSE)
      [] OTHER ->
            \* newVal.Set(val) panics on a value reached through an
            \* unexported field
            IF CanInterface(val) THEN CopyRes(val.val, h, FALSE)
            ELSE CopyRes(Nil, h, TRUE)

\* ValueOf(obj) and `if isPtr { val = val.Elem() }`, obj being any value
ElemOf(obj, h) ==
    IF Kind(obj.t) = "ptr"
    THEN IF obj.v = 0 THEN Invalid ELSE RV(h[obj.v].x, TRUE, NoRO)
    ELSE RV(obj, FALSE, NoRO)

\* Clone without the test for a struct
Clone_AnyKind(obj, h) ==
    LET isPtr == Kind(obj.t) = "ptr"
        val   == ElemOf(obj, h)
    IN  IF KindOf(val) = "invalid" THEN CopyRes(Zero(obj.t), h, FALSE)
        ELSE LET newVal == deepCopyValue(val, h)
             IN  IF newVal.fault THEN CopyRes(Nil, h, TRUE)
                 ELSE IF isPtr
                      THEN CopyRes(Val(obj.t, Len(newVal.heap) + 1),
                                   Append(newVal.heap, Var(newVal.val)), FALSE)
                      ELSE newVal

\* the type argument T is the type of obj
Clone(obj, h) ==
    LET isPtr == Kind(obj.t) = "ptr"
        val   == ElemOf(obj, h)
    IN  IF KindOf(val) # "struct" THEN CopyRes(Zero(obj.t), h, FALSE)
        ELSE LET newVal == deepCopyValue(val, h)
             IN  IF newVal.fault THEN CopyRes(Nil, h, TRUE)
                 ELSE IF isPtr
                      THEN CopyRes(Val(obj.t, Len(newVal.heap) + 1),
                                   Append(newVal.heap, Var(newVal.val)), FALSE)
                      ELSE newVal

\* What Clone is called with: a value and the heap it refers to.
\* A profile with every reference set, as the `complex` of TestClone:
\* 1 Home, 2 Tags, 3 and 4 the Friends, 5 the array of Friends, 6 the
\* Address in Data, 7 the table of Data, 8 the Address Meta holds
Carol ==
    Val("Profile", << StrV("a"), Val("*Address", 1), Val("[]string", <<2>>),
                      Val("[]*Address", <<5>>), Val("map[string]*Address", <<7>>),
                      AnyOf(Val("*Address", 8)) >>)

CarolHeap ==
    << Var(Addr("a", "b")), Array(<< StrV("a"), StrV("b") >>),
       Var(Addr("b", "a")), Var(Addr("b", "b")),
       Array(<< Val("*Address", 3), Val("*Address", 4), Val("*Address", 0) >>),
       Var(Addr("a", "a")),
       Table([k \in { "a", "b" } |->
                IF k = "a" THEN Val("*Address", 6) ELSE Val("*Address", 0)]),
       Var(Addr("", "a")) >>

\* a profile with a slice and a map that are empty, not nil, and an
\* interface that holds a value, not a reference
Dave ==
    Val("Profile", << StrV("b"), Val("*Address", 0), Val("[]string", <<1>>),
                      Val("[]*Address", <<>>), Val("map[string]*Address", <<2>>),
                      AnyOf(IntV(1)) >>)

DaveHeap == << Array(<<>>), Table(<< >>) >>

\* a profile whose references all lead to one Address: 1 the Address, 2 the
\* array of Friends, 3 the table of Data
Erin ==
    Val("Profile", << StrV("a"), Val("*Address", 1), Val("[]string", <<>>),
                      Val("[]*Address", <<2>>), Val("map[string]*Address", <<3>>),
                      AnyOf(Val("*Address", 1)) >>)

ErinHeap ==
    << Var(Addr("a", "b")),
       Array(<< Val("*Address", 1), Val("*Address", 1) >>),
       Table([k \in { "a" } |-> Val("*Address", 1)]) >>

CloneInputs ==
    { [obj |-> Carol, heap |-> CarolHeap],
      [obj |-> Val("*Profile", 9), heap |-> Append(CarolHeap, Var(Carol))],
      [obj |-> Dave, heap |-> DaveHeap],
      [obj |-> Erin, heap |-> ErinHeap],
      [obj |-> Zero("Profile"), heap |-> <<>>],
      [obj |-> Addr("a", "b"), heap |-> <<>>],
      [obj |-> Val("*Address", 1), heap |-> << Var(Addr("a", "b")) >>],
      [obj |-> Creds("a", 1), heap |-> <<>>],
      [obj |-> StrV("a"), heap |-> <<>>],
      [obj |-> IntV(1), heap |-> <<>>],
      [obj |-> Val("bool", TRUE), heap |-> <<>>],
      [obj |-> Val("[]string", <<2>>), heap |-> CarolHeap],
      [obj |-> Val("map[string]*Address", <<7>>), heap |-> CarolHeap],
      [obj |-> Val("*Profile", 0), heap |-> <<>>],
      [obj |-> Val("*int", 1), heap |-> << Var(IntV(1)) >>] }

\* What an assignment stores: another string, another number, nil
Other(x) ==
    CASE x.t = "string" -> StrV("z")
      [] x.t = "int"    -> IntV(9)
      [] x.t = "bool"   -> Val("bool", ~x.v)
      [] OTHER          -> Zero(x.t)

\* the struct x after an assignment to one of its fields, a field of a
\* nested struct included
RECURSIVE Assigned(_)
Assigned(x) ==
    UNION { { Val(x.t, [x.v EXCEPT ![i] = y]) :
                y \in (IF IsStruct(x.v[i].t) THEN Assigned(x.v[i])
                       ELSE { Other(x.v[i]) }) \ { x.v[i] } }
            : i \in 1..Len(x.v) }

\* the cell c after an assignment through a reference to it: to a field of
\* the variable, an element of the array or an entry of the table
Stored(c) ==
    CASE c.k = "var" ->
            { Var(y) : y \in (IF IsStruct(c.x.t) THEN Assigned(c.x)
                              ELSE { Other(c.x) }) }
      [] c.k = "array" ->
            { Array([c.x EXCEPT ![i] = Other(c.x[i])]) : i \in 1..Len(c.x) }
      [] c.k = "map" ->
            { Table([c.x EXCEPT ![key] = Other(c.x[key])]) : key \in DOMAIN c.x }

\* the addresses the value x leads to in heap h
RECURSIVE Refs(_, _)
Refs(x, h) ==
    CASE Kind(x.t) = "struct" ->
            UNION { Refs(x.v[i], h) : i \in 1..Len(x.v) }
      [] Kind(x.t) = "ptr" ->
            IF x.v = 0 THEN {} ELSE { x.v } \cup Refs(h[x.v].x, h)
      [] Kind(x.t) = "slice" ->
            IF x.v = <<>> THEN {}
            ELSE { x.v[1] } \cup
                 UNION { Refs(h[x.v[1]].x[i], h) : i \in 1..Len(h[x.v[1]].x) }
      [] Kind(x.t) = "map" ->
            IF x.v = <<>> THEN {}
            ELSE { x.v[1] } \cup
                 UNION { Refs(h[x.v[1]].x[key], h) : key \in DOMAIN h[x.v[1]].x }
      [] Kind(x.t) = "interface" ->
            IF x.v = <<>> THEN {} ELSE Refs(x.v[1], h)
      [] OTHER -> {}

----------------------------------------------------------------------------
(* Clone, call by call.  The recursion of deepCopyValue is a stack of      *)
(* frames, one for each call that has not returned: the value the call     *)
(* copies, the values it calls itself with, in the order of the calls, and *)
(* how many of these calls it has made.  Nothing is remembered of the      *)
(* values copied before.  The goroutine's stack is finite: at MaxDepth     *)
(* frames the runtime ends the process (fatal error: stack overflow).      *)

Node(name, next, kids, links) ==
    Val("Node", << StrV(name), Val("*Node", next), Val("[]*Node", kids),
                   Val("map[string]*Node", links) >>)

Locked(pin, next) == Val("locked", << IntV(pin), Val("*locked", next) >>)

\* the orders val.MapKeys() may return the keys of a map in
KeyOrders(val, h) ==
    IF KindOf(val) = "map" /\ val.val.v # <<>>
    THEN LET keys == DOMAIN h[val.val.v[1]].x
         IN  { f \in [1..Cardinality(keys) -> keys] :
                 \A i, j \in 1..Cardinality(keys) : f[i] = f[j] => i = j }
    ELSE { <<>> }

\* the values deepCopyValue(val) calls itself with, in the order of the calls
Callees(val, h, keys) ==
    CASE KindOf(val) = "ptr" ->
            IF val.val.v = 0 THEN <<>>
            ELSE << RV(h[val.val.v].x, TRUE, val.ro) >>
      [] KindOf(val) = "struct" ->
            [i \in 1..NumField(val.val.t) |-> Field(val, i)]
      [] KindOf(val) = "slice" ->
            IF val.val.v = <<>> THEN <<>>
            ELSE [i \in 1..Len(h[val.val.v[1]].x) |->
                     RV(h[val.val.v[1]].x[i], TRUE, val.ro)]
      [] KindOf(val) = "map" ->
            IF val.val.v = <<>> THEN <<>>
            ELSE [n \in 1..(2 * Len(keys)) |->
                     IF n % 2 = 1 THEN RV(StrV(keys[(n + 1) \div 2]), FALSE, val.ro)
                     ELSE RV(h[val.val.v[1]].x[keys[n \div 2]], FALSE, val.ro)]
      [] KindOf(val) = "interface" ->
            IF val.val.v = <<>> THEN <<>>
            ELSE << RV(val.val.v[1], FALSE, val.ro) >>
      [] OTHER -> <<>>

\* a call of deepCopyValue that has not returned
Frame(val, kids) == [val |-> val, kids |-> kids, i |-> 0]

\* the default case: `newVal.Set(val)` panics on a value reached through an
\* unexported field
SetPanics(val) ==
    /\ KindOf(val) \notin { "invalid", "ptr", "struct", "slice", "map", "interface" }
    /\ ~CanInterface(val)

\* `newStruct.Field(i).Set(...)` panics on an unexported field of newStruct
FieldSetPanics(frame) ==
    /\ KindOf(frame.val) = "struct"
    /\ ~CanSet(Field(RV(Zero(frame.val.val.t), TRUE, NoRO), frame.i))

\* the address the reference val holds, if it holds one
Held(val) ==
    CASE KindOf(val) = "ptr" -> IF val.val.v = 0 THEN {} ELSE { val.val.v }
      [] KindOf(val) \in { "slice", "map" } ->
            IF val.val.v = <<>> THEN {} ELSE { val.val.v[1] }
      [] OTHER -> {}

\* Value graphs that lead back to themselves: through a pointer, through two
\* pointers, through a slice, through a map, and through a pointer behind an
\* unexported field; and a list of two nodes, which does not.
CyclicInputs ==
    { [obj |-> Val("*Node", 1), heap |-> << Var(Node("a", 1, <<>>, <<>>)) >>],
      [obj |-> Node("a", 1, <<>>, <<>>), heap |-> << Var(Node("a", 1, <<>>, <<>>)) >>],
      [obj |-> Val("*Node", 1),
       heap |-> << Var(Node("a", 2, <<>>, <<>>)), Var(Node("b", 1, <<>>, <<>>)) >>],
      [obj |-> Val("*Node", 1),
       heap |-> << Var(Node("a", 0, <<2>>, <<>>)),
                   Array(<< Val("*Node", 0), Val("*Node", 1) >>) >>],
      [obj |-> Val("*Node", 1),
       heap |-> << Var(Node("a", 0, <<>>, <<2>>)),
                   Table([k \in { "a" } |-> Val("*Node", 1)]) >>],
      [obj |-> Val("*locked", 1), heap |-> << Var(Locked(1, 1)) >>],
      [obj |-> Val("*Node", 1),
       heap |-> << Var(Node("a", 2, <<>>, <<>>)), Var(Node("b", 0, <<>>, <<>>)) >>] }

----------------------------------------------------------------------------
(* Packages ramda and rslice: Compose and the slice functions.  T is uint8 *)
(* for Compose and int for the slices.  A slice is a header over a backing *)
(* array in the heap: the array's address (0 for the nil slice), the       *)
(* offset of its first element in the array, its length and its capacity.  *)

\* the functions the tests and the README compose
FnNames == { "double", "addOne", "square" }

\* fns[i](x) on uint8
Apply(f, x) ==
    CASE f = "double" -> (x * 2) % 256
      [] f = "addOne" -> (x + 1) % 256
      [] f = "square" -> (x * x) % 256

\* the loop `for i := len(fns) - 1; i >= 0; i--`, from index i on (the
\* indices of a sequence start at 1)
RECURSIVE composeLoop(_, _, _)
\* the loop run from the first function to the last
composeLoop_LeftToRight(fns, i, result) ==
    IF i < 1 THEN result
    ELSE composeLoop(fns, i - 1, Apply(fns[Len(fns) + 1 - i], result))

composeLoop(fns, i, result) ==
    IF i < 1 THEN result
    ELSE composeLoop(fns, i - 1, Apply(fns[i], result))

\* Compose(fns...)(x)
Compose(fns, x) == composeLoop(fns, Len(fns), x)

Slice(ptr, off, len, cap) == [ptr |-> ptr, off |-> off, len |-> len, cap |-> cap]

\* var s []T
NilSlice == Slice(0, 0, 0, 0)

\* s[0], ..., s[len(s)-1] in heap h
Elements(s, h) == [i \in 1..s.len |-> h[s.ptr].x[s.off + i]]

\* a slice function returns a slice and leaves a heap
SliceRes(s, h) == [s |-> s, h |-> h]

\* []T{}: empty and not nil
EmptyLit(h) == SliceRes(Slice(Len(h) + 1, 0, 0, 0), Append(h, Array(<<>>)))

\* make([]T, len(xs)) followed by copy(result, xs): a new backing array
MakeCopy(xs, h) ==
    SliceRes(Slice(Len(h) + 1, 0, Len(xs), Len(xs)), Append(h, Array(xs)))

\* append([]T{}, xs...): the literal itself when there is nothing to append,
\* otherwise a new backing array, of capacity len(xs) for the lengths and the
\* element size at hand
AppendToEmpty(xs, h) ==
    IF Len(xs) = 0 THEN EmptyLit(h) ELSE MakeCopy(xs, h)

\* package ramda: the result is the slice itself or a prefix of it, over the
\* same backing array
Take(n, slice, h) ==
    IF n <= 0 THEN EmptyLit(h)
    ELSE IF n >= slice.len THEN SliceRes(slice, h)
    ELSE SliceRes(Slice(slice.ptr, slice.off, n, slice.cap), h)

\* package ramda: slice[n:]
Drop(n, slice, h) ==
    IF n <= 0 THEN SliceRes(slice, h)
    ELSE IF n >= slice.len THEN EmptyLit(h)
    ELSE SliceRes(Slice(slice.ptr, slice.off + n, slice.len - n, slice.cap - n), h)

\* package rslice: the elements are appended to a new slice
rslice_Take(n, slice, h) ==
    IF n <= 0 THEN EmptyLit(h)
    ELSE IF n >= slice.len THEN AppendToEmpty(Elements(slice, h), h)
    ELSE AppendToEmpty(SubSeq(Elements(slice, h), 1, n), h)

rslice_Drop(n, slice, h) ==
    IF n <= 0 THEN AppendToEmpty(Elements(slice, h), h)
    ELSE IF n >= slice.len THEN EmptyLit(h)
    ELSE AppendToEmpty(SubSeq(Elements(slice, h), n + 1, slice.len), h)

\* the comparison functions of the tests: a < b and a > b
LessFns == { "lt", "gt" }

Less(fn, a, b) ==
    CASE fn = "lt" -> a < b
      [] fn = "gt" -> a > b

\* result[i], result[j] = result[j], result[i]
Swap(r, i, j) == [r EXCEPT ![i] = r[j], ![j] = r[i]]

\* sort.Slice on fewer than 12 elements is an insertion sort:
\* `for j := i; j > a && less(j, j-1); j-- { swap(j, j-1) }`
RECURSIVE insertionInner(_, _, _)
insertionInner(fn, r, j) ==
    IF j > 1 /\ Less(fn, r[j], r[j - 1])
    THEN insertionInner(fn, Swap(r, j, j - 1), j - 1)
    ELSE r

\* `for i := a + 1; i < b; i++`
RECURSIVE insertionSort(_, _, _)
insertionSort(fn, r, i) ==
    IF i > Len(r) THEN r
    ELSE insertionSort(fn, insertionInner(fn, r, i), i + 1)

\* package ramda
SortBy(fn, slice, h) ==
    MakeCopy(insertionSort(fn, Elements(slice, h), 2), h)

\* package rslice: `for j := 0; j < len(result)-i-1; j++`, from j on
RECURSIVE bubbleInner(_, _, _, _)
\* the test `fn(result[j], result[j+1])` without its negation
bubbleInner_NoNegation(fn, r, i, j) ==
    IF j >= Len(r) - i - 1 THEN r
    ELSE bubbleInner(fn,
                     IF Less(fn, r[j + 1], r[j + 2]) THEN Swap(r, j + 1, j + 2) ELSE r,
                     i, j + 1)

bubbleInner(fn, r, i, j) ==
    IF j >= Len(r) - i - 1 THEN r
    ELSE bubbleInner(fn,
                     IF ~Less(fn, r[j + 1], r[j + 2]) THEN Swap(r, j + 1, j + 2) ELSE r,
                     i, j + 1)

\* `for i := 0; i < len(result)-1; i++`, from i on
RECURSIVE bubbleOuter(_, _, _)
bubbleOuter(fn, r, i) ==
    IF i >= Len(r) - 1 THEN r
    ELSE bubbleOuter(fn, bubbleInner(fn, r, i, 0), i + 1)

rslice_SortBy(fn, slice, h) ==
    MakeCopy(bubbleOuter(fn, Elements(slice, h), 0), h)

\* result[i] = v, by the caller (i counted from 1)
WriteAt(s, i, v, h) ==
    [h EXCEPT ![s.ptr] = Array([h[s.ptr].x EXCEPT ![s.off + i] = v])]

\* append(s, v), by the caller: in place within the capacity, in a new
\* backing array of twice the capacity beyond it
AppendOne(s, v, h) ==
    IF s.len < s.cap
    THEN SliceRes(Slice(s.ptr, s.off, s.len + 1, s.cap), WriteAt(s, s.len + 1, v, h))
    ELSE LET newcap == IF s.cap = 0 THEN 1 ELSE 2 * s.cap
             xs     == Elements(s, h)
         IN  SliceRes(Slice(Len(h) + 1, 0, s.len + 1, newcap),
                      Append(h, Array([i \in 1..newcap |->
                                          IF i <= s.len THEN xs[i]
                                          ELSE IF i = s.len + 1 THEN v ELSE 0])))

\* the slices of the tests: nil, and the literals of at most MaxLen elements
SliceInputs ==
    { [s |-> NilSlice, h |-> <<>>] } \cup
    { [s |-> Slice(1, 0, Len(xs), Len(xs)), h |-> << Array(xs) >>] :
        xs \in UNION { [1..n -> 1..MaxLen] : n \in 0..MaxLen } }

\* the lists of functions handed to Compose
FnLists == UNION { [1..n -> FnNames] : n \in 0..MaxFns }

----------------------------------------------------------------------------
(* The caller.  A test case builds its record, calls one operation on it,  *)
(* inspects the outcome and goes on to the next call.                      *)

NoArg == [form |-> "value", path |-> <<>>, value |-> Nil]

Ready == op = "idle"

Init ==
    /\ rec \in InitRecords
    /\ op = "idle"
    /\ arg = NoArg
    /\ res = NotFound
    /\ prev = rec
    /\ nwrites = 0
    /\ heap = HomeHeap
    /\ copy = Nil

DoGet ==
    /\ Ready
    /\ \E form \in Forms, p \in Paths :
        /\ op' = "Get"
        /\ arg' = [form |-> form, path |-> p, value |-> Nil]
        /\ res' = Get(form, rec, p)
        /\ prev' = rec
        /\ UNCHANGED <<rec, nwrites, heap, copy>>

DoHas ==
    /\ Ready
    /\ \E form \in Forms, p \in Paths :
        /\ op' = "Has"
        /\ arg' = [form |-> form, path |-> p, value |-> Nil]
        /\ res' = [has |-> Has(form, rec, p)]
        /\ prev' = rec
        /\ UNCHANGED <<rec, nwrites, heap, copy>>

\* DoSet with the write lost: Set working on a copy of the record
DoSet_OnCopy ==
    /\ Ready
    /\ nwrites < MaxWrites
    /\ \E form \in Forms, p \in Paths, value \in Values :
        LET r == Set(form, rec, p, value)
        IN  /\ op' = "Set"
            /\ arg' = [form |-> form, path |-> p, value |-> value]
            /\ res' = [err |-> r.err, fault |-> r.fault]
            /\ prev' = rec
            /\ rec' = rec
            /\ nwrites' = nwrites + 1
            /\ UNCHANGED <<heap, copy>>

\* Set writes through the reference only; by value it works on the copy the
\* call received
DoSet ==
    /\ Ready
    /\ nwrites < MaxWrites
    /\ \E form \in Forms, p \in Paths, value \in Values :
        LET r == Set(form, rec, p, value)
        IN  /\ op' = "Set"
            /\ arg' = [form |-> form, path |-> p, value |-> value]
            /\ res' = [err |-> r.err, fault |-> r.fault]
            /\ prev' = rec
            /\ rec' = IF form = "ref" THEN r.val ELSE rec
            /\ nwrites' = nwrites + 1
            /\ UNCHANGED <<heap, copy>>

DoFields ==
    /\ Ready
    /\ \E form \in Forms :
        /\ op' = "Fields"
        /\ arg' = [form |-> form]
        /\ res' = [names |-> Fields(form, rec)]
        /\ prev' = rec
        /\ UNCHANGED <<rec, nwrites, heap, copy>>

DoToMap ==
    /\ Ready
    /\ \E form \in Forms :
        /\ op' = "ToMap"
        /\ arg' = [form |-> form]
        /\ res' = [map |-> ToMap(form, rec)]
        /\ prev' = rec
        /\ UNCHANGED <<rec, nwrites, heap, copy>>

\* user, ok := FromMap[T](data): the record built becomes the caller's.
\* FromMap reads nothing but its map, so it is the first call of a behaviour.
DoFromMap ==
    /\ Ready
    /\ nwrites = 0
    /\ \E T \in TargetTypes :
        \E data \in MapsFor(T) :
            LET r == FromMap(T, data)
            IN  /\ op' = "FromMap"
                /\ arg' = [T |-> T, data |-> data]
                /\ res' = [ok |-> r.ok, fault |-> r.fault]
                /\ prev' = rec
                /\ rec' = IF r.fault \/ ~IsStruct(T) THEN rec ELSE r.val
                /\ nwrites' = nwrites + 1
                /\ UNCHANGED <<heap, copy>>

\* back, ok := FromMap[T](ToMap(r)), T being the type of the caller's record
DoRoundTrip ==
    /\ Ready
    /\ \E form \in { "value", "ref" } :
        LET r == FromMap(rec.t, ToMap(form, rec))
        IN  /\ op' = "RoundTrip"
            /\ arg' = [form |-> form]
            /\ res' = [ok |-> r.ok, fault |-> r.fault, val |-> r.val]
            /\ prev' = rec
            /\ UNCHANGED <<rec, nwrites, heap, copy>>

\* the caller is done with the outcome of the last call
Return ==
    /\ ~Ready
    /\ op' = "idle"
    /\ arg' = NoArg
    /\ res' = NotFound
    /\ prev' = rec
    /\ UNCHANGED <<rec, nwrites, heap, copy>>

\* field access by path: Get, Has and Set on the caller's record
Next == DoGet \/ DoHas \/ DoSet \/ Return

Spec == Init /\ [][Next]_vars

\* conversion between records and maps
NextConv == DoFields \/ DoToMap \/ DoFromMap \/ DoRoundTrip \/ Return

SpecConv == Init /\ [][NextConv]_vars

\* a test of Pick, Omit or Merge starts from a record of any of the types
InitSel ==
    /\ rec \in SelRecords
    /\ op = "idle"
    /\ arg = NoArg
    /\ res = NotFound
    /\ prev = rec
    /\ nwrites = 0
    /\ heap = HomeHeap
    /\ copy = Nil

DoPick ==
    /\ Ready
    /\ \E form \in Forms, fields \in FieldLists(rec.t) :
        /\ op' = "Pick"
        /\ arg' = [form |-> form, fields |-> fields]
        /\ res' = Pick(form, rec, fields)
        /\ prev' = rec
        /\ UNCHANGED <<rec, nwrites, heap, copy>>

DoOmit ==
    /\ Ready
    /\ \E form \in Forms, fields \in FieldLists(rec.t) :
        /\ op' = "Omit"
        /\ arg' = [form |-> form, fields |-> fields]
        /\ res' = Omit(form, rec, fields)
        /\ prev' = rec
        /\ UNCHANGED <<rec, nwrites, heap, copy>>

\* merged := Merge(structs...), the structs being of the type of the
\* caller's record
DoMerge ==
    /\ Ready
    /\ \E form \in Forms, structs \in InputLists(rec.t) :
        /\ op' = "Merge"
        /\ arg' = [form |-> form, structs |-> structs]
        /\ res' = Merge(form, rec.t, structs)
        /\ prev' = rec
        /\ UNCHANGED <<rec, nwrites, heap, copy>>

\* back := Merge(Pick(r, fields), Omit(r, fields)), or with Omit first; a
\* panic of Pick or Omit ends the statement
DoRecombine ==
    /\ Ready
    /\ \E fields \in FieldLists(rec.t), first \in { "Pick", "Omit" } :
        LET picked  == Pick("value", rec, fields)
            omitted == Omit("value", rec, fields)
            merged  == IF first = "Pick"
                       THEN Merge("value", rec.t, << picked.val, omitted.val >>)
                       ELSE Merge("value", rec.t, << omitted.val, picked.val >>)
        IN  /\ op' = "Recombine"
            /\ arg' = [form |-> "value", fields |-> fields, first |-> first]
            /\ res' = IF picked.fault \/ omitted.fault
                      THEN SelRes(Zero(rec.t), TRUE)
                      ELSE merged
            /\ prev' = rec
            /\ UNCHANGED <<rec, nwrites, heap, copy>>

\* subsetting and merging of records
NextSel == DoPick \/ DoOmit \/ DoMerge \/ DoRecombine \/ Return

SpecSel == InitSel /\ [][NextSel]_vars

\* a test of Clone starts from a value and the heap it refers to
InitClone ==
    /\ \E g \in CloneInputs : rec = g.obj /\ heap = g.heap
    /\ op = "idle"
    /\ arg = NoArg
    /\ res = NotFound
    /\ prev = rec
    /\ nwrites = 0
    /\ copy = Nil

\* cloned := Clone(original)
DoClone ==
    /\ Ready
    /\ copy = Nil
    /\ LET r == Clone(rec, heap)
       IN  /\ op' = "Clone"
           /\ arg' = [depth |-> 1]
           /\ res' = [fault |-> r.fault]
           /\ prev' = [obj |-> rec, heap |-> heap]
           /\ copy' = IF r.fault THEN Nil ELSE r.val
           /\ heap' = r.heap
           /\ UNCHANGED <<rec, nwrites>>

\* cloned = Clone(cloned)
DoCloneCopy ==
    /\ op = "Clone"
    /\ arg.depth = 1
    /\ ~res.fault
    /\ LET r == Clone(copy, heap)
       IN  /\ op' = "Clone"
           /\ arg' = [depth |-> 2]
           /\ res' = [fault |-> r.fault]
           /\ prev' = [obj |-> copy, heap |-> heap]
           /\ copy' = IF r.fault THEN Nil ELSE r.val
           /\ heap' = r.heap
           /\ UNCHANGED <<rec, nwrites>>

\* an assignment to a field of the original or of the clone, or through one
\* of the references it leads to (original.Address.City = ..., Tags[0] = ...,
\* Metadata["level"] = ...)
DoMutate ==
    /\ op \in { "Clone", "Mutate" }
    /\ copy # Nil
    /\ nwrites < MaxMutations
    /\ \E side \in { "original", "clone" } :
        LET root == IF side = "original" THEN rec ELSE copy
        IN  /\ \/ \E a \in Refs(root, heap) : \E c \in Stored(heap[a]) :
                    /\ c # heap[a]
                    /\ heap' = [heap EXCEPT ![a] = c]
                    /\ arg' = [side |-> side, at |-> a]
                    /\ UNCHANGED <<rec, copy>>
               \/ /\ IsStruct(root.t)
                  /\ \E x \in Assigned(root) :
                        /\ rec' = IF side = "original" THEN x ELSE rec
                        /\ copy' = IF side = "original" THEN copy ELSE x
                  /\ arg' = [side |-> side, at |-> 0]
                  /\ UNCHANGED heap
            /\ op' = "Mutate"
            /\ prev' = [obj |-> rec, copy |-> copy, heap |-> heap]
            /\ nwrites' = nwrites + 1
            /\ UNCHANGED res

\* deep copies
NextClone == DoClone \/ DoCloneCopy \/ DoMutate \/ Return

SpecClone == InitClone /\ [][NextClone]_vars

\* a call of Clone starts from a value and the heap it refers to
InitWalk ==
    /\ \E g \in CloneInputs \cup CyclicInputs : rec = g.obj /\ heap = g.heap
    /\ op = "idle"
    /\ arg = <<>>
    /\ res = [fault |-> FALSE]
    /\ prev = {}
    /\ nwrites = 0
    /\ copy = Nil

\* Clone(obj) up to its call of deepCopyValue; what is not a struct is
\* answered at once
CloneEnter ==
    /\ op = "idle"
    /\ LET val == ElemOf(rec, heap)
       IN  IF KindOf(val) # "struct"
           THEN /\ op' = "done"
                /\ UNCHANGED <<arg, prev>>
           ELSE /\ op' = "Clone"
                /\ arg' = << Frame(val, Callees(val, heap, <<>>)) >>
                /\ prev' = IF Kind(rec.t) = "ptr" THEN { rec.v } ELSE {}
    /\ UNCHANGED <<rec, res, nwrites, heap, copy>>

\* the call on top of the stack calls deepCopyValue with its next field,
\* pointee, element, key or entry
Call ==
    /\ op = "Clone"
    /\ LET top == arg[Len(arg)]
       IN  /\ top.i < Len(top.kids)
           /\ Len(arg) < MaxDepth
           /\ ~SetPanics(top.kids[top.i + 1])
           /\ \E keys \in KeyOrders(top.kids[top.i + 1], heap) :
                 arg' = Append([arg EXCEPT ![Len(arg)].i = top.i + 1],
                               Frame(top.kids[top.i + 1],
                                     Callees(top.kids[top.i + 1], heap, keys)))
           /\ prev' = prev \cup Held(top.kids[top.i + 1])
    /\ UNCHANGED <<rec, op, res, nwrites, heap, copy>>

\* the call on top of the stack has made its calls and returns its copy,
\* which its caller stores; the first call returns to Clone
Unwind ==
    /\ op = "Clone"
    /\ arg[Len(arg)].i = Len(arg[Len(arg)].kids)
    /\ Len(arg) > 1 => ~FieldSetPanics(arg[Len(arg) - 1])
    /\ arg' = SubSeq(arg, 1, Len(arg) - 1)
    /\ op' = IF Len(arg) = 1 THEN "done" ELSE "Clone"
    /\ UNCHANGED <<rec, res, prev, nwrites, heap, copy>>

\* Value.Set panics: in the call for a value reached through an unexported
\* field, or when the caller stores a copy in an unexported field
Panic ==
    /\ op = "Clone"
    /\ LET top == arg[Len(arg)]
       IN  \/ /\ top.i < Len(top.kids)
              /\ Len(arg) < MaxDepth
              /\ SetPanics(top.kids[top.i + 1])
           \/ /\ top.i = Len(top.kids)
              /\ Len(arg) > 1
              /\ FieldSetPanics(arg[Len(arg) - 1])
    /\ op' = "panic"
    /\ res' = [fault |-> TRUE]
    /\ UNCHANGED <<rec, arg, prev, nwrites, heap, copy>>

\* the next call does not fit on the stack: the runtime ends the process
Overflow ==
    /\ op = "Clone"
    /\ arg[Len(arg)].i < Len(arg[Len(arg)].kids)
    /\ Len(arg) = MaxDepth
    /\ op' = "overflow"
    /\ UNCHANGED <<rec, arg, res, prev, nwrites, heap, copy>>

\* the recursion of Clone
NextWalk == CloneEnter \/ Call \/ Unwind \/ Panic \/ Overflow

\* a goroutine that can take a step takes it
SpecWalk == InitWalk /\ [][NextWalk]_vars /\ WF_vars(NextWalk)

\* a test of the slice functions starts from a slice
InitSlice ==
    /\ \E g \in SliceInputs : rec = g.s /\ heap = g.h /\ prev = Elements(g.s, g.h)
    /\ op = "idle"
    /\ arg = NoArg
    /\ res = NotFound
    /\ nwrites = 0
    /\ copy = Nil

\* result := Compose(fns...)(x)
DoCompose ==
    /\ Ready
    /\ \E fns \in FnLists, x \in 0..MaxX :
        /\ op' = "Compose"
        /\ arg' = [fns |-> fns, x |-> x]
        /\ res' = Compose(fns, x)
        /\ UNCHANGED <<rec, prev, nwrites, heap, copy>>

\* result := Take(n, slice), of either package
DoTake ==
    /\ Ready
    /\ \E pkg \in { "ramda", "rslice" }, n \in (0 - 1)..(MaxLen + 1) :
        LET r == IF pkg = "ramda" THEN Take(n, rec, heap)
                 ELSE rslice_Take(n, rec, heap)
        IN  /\ op' = "Take"
            /\ arg' = [pkg |-> pkg, n |-> n]
            /\ copy' = r.s
            /\ heap' = r.h
            /\ UNCHANGED <<rec, res, prev, nwrites>>

\* result := Drop(n, slice), of either package
DoDrop ==
    /\ Ready
    /\ \E pkg \in { "ramda", "rslice" }, n \in (0 - 1)..(MaxLen + 1) :
        LET r == IF pkg = "ramda" THEN Drop(n, rec, heap)
                 ELSE rslice_Drop(n, rec, heap)
        IN  /\ op' = "Drop"
            /\ arg' = [pkg |-> pkg, n |-> n]
            /\ copy' = r.s
            /\ heap' = r.h
            /\ UNCHANGED <<rec, res, prev, nwrites>>

\* sorted := SortBy(fn, slice), of either package
DoSortBy ==
    /\ Ready
    /\ \E pkg \in { "ramda", "rslice" }, fn \in LessFns :
        LET r == IF pkg = "ramda" THEN SortBy(fn, rec, heap)
                 ELSE rslice_SortBy(fn, rec, heap)
        IN  /\ op' = "SortBy"
            /\ arg' = [pkg |-> pkg, fn |-> fn]
            /\ copy' = r.s
            /\ heap' = r.h
            /\ UNCHANGED <<rec, res, prev, nwrites>>

\* result[i] = 0
DoWrite ==
    /\ op \in { "Take", "Drop", "SortBy" }
    /\ \E i \in 1..copy.len :
        /\ op' = "Write"
        /\ arg' = [of |-> op, pkg |-> arg.pkg, at |-> i]
        /\ heap' = WriteAt(copy, i, 0, heap)
        /\ UNCHANGED <<rec, res, prev, nwrites, copy>>

\* result = append(result, 0)
DoAppend ==
    /\ op \in { "Take", "Drop", "SortBy" }
    /\ LET r == AppendOne(copy, 0, heap)
       IN  /\ op' = "Append"
           /\ arg' = [of |-> op, pkg |-> arg.pkg, at |-> copy.len + 1]
           /\ copy' = r.s
           /\ heap' = r.h
           /\ UNCHANGED <<rec, res, prev, nwrites>>

\* the caller is done with the result: what only the result referred to is
\* garbage
Release ==
    /\ ~Ready
    /\ op' = "idle"
    /\ arg' = NoArg
    /\ res' = NotFound
    /\ copy' = Nil
    /\ heap' = IF rec.ptr = 0 THEN <<>> ELSE << heap[1] >>
    /\ prev' = Elements(rec, heap)
    /\ UNCHANGED <<rec, nwrites>>

\* function composition and slices
NextSlice ==
    DoCompose \/ DoTake \/ DoDrop \/ DoSortBy \/ DoWrite \/ DoAppend \/ Release

SpecSlice == InitSlice /\ [][NextSlice]_vars

----------------------------------------------------------------------------
(* What the properties are stated with: the declarations read directly,   *)
(* without reflect.                                                        *)

Declared(t, n) == { i \in 1..NumField(t) : StructTypes[t][i].name = n }

IsPrefix(p, q) == Len(p) <= Len(q) /\ SubSeq(q, 1, Len(p)) = p

Overlap(p, q) == IsPrefix(p, q) \/ IsPrefix(q, p)

\* where a path leads in the declarations of struct type t: to a field
\* ("field", with its declared type), to a segment that names no field
\* ("nofield") or past a field that is not a record ("notrecord")
RECURSIVE Walk(_, _)
Walk(t, parts) ==
    IF Declared(t, parts[1]) = {} THEN [st |-> "nofield", type |-> ""]
    ELSE LET f == StructTypes[t][CHOOSE i \in Declared(t, parts[1]) : TRUE]
         IN  IF Len(parts) = 1 THEN [st |-> "field", type |-> f.type]
             ELSE IF IsStruct(f.type) THEN Walk(f.type, Tail(parts))
             ELSE [st |-> "notrecord", type |-> ""]

\* every segment but the last names an exported field
RECURSIVE ExportedPrefix(_, _)
ExportedPrefix(t, parts) ==
    \/ Len(parts) <= 1
    \/ LET f == StructTypes[t][CHOOSE i \in Declared(t, parts[1]) : TRUE]
       IN  f.exported /\ ExportedPrefix(f.type, Tail(parts))

\* the value stored at a path that leads to a field
RECURSIVE Lookup(_, _)
Lookup(x, parts) ==
    LET y == x.v[CHOOSE i \in Declared(x.t, parts[1]) : TRUE]
    IN  IF Len(parts) = 1 THEN y ELSE Lookup(y, Tail(parts))

\* the paths that lead to a field of struct type t
RECURSIVE FieldPaths(_)
FieldPaths(t) ==
    UNION { LET f == StructTypes[t][i]
            IN  { <<f.name>> } \cup
                (IF IsStruct(f.type)
                 THEN { <<f.name>> \o q : q \in FieldPaths(f.type) }
                 ELSE {})
            : i \in 1..NumField(t) }

\* assignability as the Go specification gives it for the types of the
\* universe: identical types, any value to the empty interface, and a value
\* of type []string to a variable of type Tags and back
Assignable(from, to) ==
    \/ from = to
    \/ to = "any"
    \/ <<from, to>> \in { <<"[]string", "Tags">>, <<"Tags", "[]string">> }

\* a field value as an any: what an interface field holds, or the value
Boxed(x) ==
    IF x.t = "any" THEN (IF x.v = <<>> THEN Nil ELSE x.v[1]) ELSE x

\* v as a variable of type `to` holds it, seen again as an any
Converted(x, to) == IF Kind(to) = "interface" THEN x ELSE Val(to, x.v)

OnRecord == arg.form \in { "value", "ref" }

SetOk == op = "Set" /\ res.err = "" /\ ~res.fault

----------------------------------------------------------------------------
(* Set followed by Get *)

\* a Set through a reference, of a value of an assignable type, at a path
\* Get resolved before the call
RoundTripCase ==
    /\ op = "Set"
    /\ arg.form = "ref"
    /\ arg.value # Nil
    /\ Get("ref", prev, arg.path).found
    /\ Assignable(arg.value.t, Walk(prev.t, arg.path).type)

\* C1 as stated: Set(&r, p, v) succeeds for every path p that resolves in r
\* and every v of an assignable type, and Get(r, p) then returns (v, true).
C1_RoundTripAsStated ==
    RoundTripCase =>
        /\ SetOk
        /\ Get("ref", rec, arg.path) = GetRes(arg.value, TRUE, FALSE)

\* C1 amended: when, besides, every segment of p but the last names an
\* exported field, Set(&r, p, v) succeeds and Get(r, p) then returns
\* (v', true), v' being v converted to the declared type of the field: v
\* itself when v has that type or the field is of interface type.
C1_RoundTrip ==
    (RoundTripCase /\ ExportedPrefix(prev.t, arg.path)) =>
        LET T == Walk(prev.t, arg.path).type
        IN  /\ SetOk
            /\ Get("ref", rec, arg.path) = GetRes(Converted(arg.value, T), TRUE, FALSE)
            /\ Get("value", rec, arg.path) = GetRes(Converted(arg.value, T), TRUE, FALSE)
            /\ (arg.value.t = T \/ Kind(T) = "interface")
                  => Get("ref", rec, arg.path).value = arg.value

\* a nested path through the embedded record has been set and reads back
C1_Witness ==
    /\ RoundTripCase
    /\ arg.path = <<"User", "Address", "City">>
    /\ arg.value = StrV("b")
    /\ SetOk
    /\ rec # prev
    /\ Get("ref", rec, arg.path).value = StrV("b")

----------------------------------------------------------------------------
(* Has and Get *)

\* C2: Has(r, p) equals the found flag Get(r, p) returns, for all records,
\* by value or by reference, and all paths; the two never disagree.
C2_HasGetAgree ==
    op = "Get" =>
        /\ ~res.fault
        /\ res.found = Has(arg.form, rec, arg.path)

----------------------------------------------------------------------------
(* A Set that fails *)

\* one of the three causes of failure holds of the call
FailCause ==
    /\ OnRecord
    /\ LET w == Walk(prev.t, arg.path)
       IN  \/ w.st = "nofield"
           \/ w.st = "notrecord"
           \/ /\ w.st = "field"
              /\ arg.value # Nil
              /\ ~Assignable(arg.value.t, w.type)

\* C3: a Set whose path has a segment that names no field, or leads past a
\* field that is not a record, or whose value is of a type not assignable to
\* the field, returns a failure and leaves the whole record as it was.
C3_FailedSetChangesNothing ==
    (op = "Set" /\ FailCause) =>
        /\ res.err # ""
        /\ ~res.fault
        /\ rec = prev

\* an int for a nested text field, through a reference, has been refused
C3_Witness ==
    /\ op = "Set"
    /\ FailCause
    /\ arg.form = "ref"
    /\ arg.path = <<"Address", "City">>
    /\ arg.value = IntV(1)
    /\ prev = Alice
    /\ res.err = "cannot assign value"
    /\ rec = Alice

----------------------------------------------------------------------------
(* A Set that succeeds *)

\* C4: a successful Set(&r, p, v) changes only the field p addresses: every
\* field at a path that neither contains p nor lies under it keeps its value.
C4_SetFrame ==
    SetOk =>
        \A q \in FieldPaths(prev.t) :
            ~Overlap(arg.path, q) => Lookup(rec, q) = Lookup(prev, q)

\* a field of a nested record has been set next to a sibling that is not zero
C4_Witness ==
    /\ SetOk
    /\ arg.path = <<"User", "Address", "City">>
    /\ prev = Alice
    /\ Lookup(rec, arg.path) # Lookup(prev, arg.path)
    /\ Lookup(rec, <<"User", "Address", "Street">>) = StrV("a")

----------------------------------------------------------------------------
(* Get past a field that is not a record *)

\* C5: Get on a path with a segment, not the last, that names a field which
\* is not a record returns found = false, whatever the segments left.
C5_NonRecordIntermediate ==
    (op = "Get" /\ OnRecord /\ Walk(rec.t, arg.path).st = "notrecord") =>
        res = NotFound

\* "User.Name.Phone" has been asked of a record whose User.Name is text
C5_Witness ==
    /\ op = "Get"
    /\ arg.form = "value"
    /\ arg.path = <<"User", "Name", Unknown>>
    /\ Lookup(rec, <<"User", "Name">>) = StrV("a")
    /\ res = NotFound

----------------------------------------------------------------------------
(* Single segments and embedded records *)

----------------------------------------------------------------------------
(* Fields *)

\* C7: Fields(r), of a record or a reference to one, is the names of the
\* fields the type of r declares itself, in the order of declaration, an
\* embedded or nested record being one entry; of anything else it is empty.
C7_FieldsDeclared ==
    op = "Fields" =>
        IF OnRecord
        THEN /\ Len(res.names) = Len(StructTypes[rec.t])
             /\ \A i \in 1..Len(res.names) : res.names[i] = StructTypes[rec.t][i].name
             /\ rec.t = "Person" =>
                   res.names = <<"User", "Address", "Meta", "Home", "Tags", "creds">>
        ELSE res.names = <<>>

\* the fields of a Person have been listed through a reference: the embedded
\* User is one entry and its Name is not listed
C7_Witness ==
    /\ op = "Fields"
    /\ arg.form = "ref"
    /\ rec.t = "Person"
    /\ res.names[1] = "User"
    /\ \A i \in 1..Len(res.names) : res.names[i] # "Name"

----------------------------------------------------------------------------
(* ToMap *)

\* the fields of the record r that do not hold the zero value of their type
NonZero(r) == { i \in 1..Len(StructTypes[r.t]) : r.v[i] # Zero(r.v[i].t) }

\* C8 as stated: ToMap(r) has an entry name -> value for exactly the declared
\* fields of r whose value is not the zero value of their type.
C8_ToMapAsStated ==
    (op = "ToMap" /\ OnRecord) =>
        /\ DOMAIN res.map = { StructTypes[rec.t][i].name : i \in NonZero(rec) }
        /\ \A i \in NonZero(rec) :
              res.map[StructTypes[rec.t][i].name] = Boxed(rec.v[i])

\* C8 amended: ToMap(r) has an entry name -> value for exactly the exported
\* declared fields of r whose value is not the zero value of their type; a
\* zero field, a nested record of zero fields included, and an unexported
\* field are absent.
C8_ToMapExportedNonZero ==
    (op = "ToMap" /\ OnRecord) =>
        LET kept == { i \in NonZero(rec) : StructTypes[rec.t][i].exported }
        IN  /\ DOMAIN res.map = { StructTypes[rec.t][i].name : i \in kept }
            /\ \A i \in kept :
                  res.map[StructTypes[rec.t][i].name] = Boxed(rec.v[i])

\* ToMap has been called on a Person whose Address alone is set: the map has
\* that entry only, the nested User of zero fields is absent
C8_Witness ==
    /\ op = "ToMap"
    /\ arg.form = "value"
    /\ rec.t = "Person"
    /\ rec.v[1] = Zero("User")
    /\ rec.v[2] = Addr("b", "b")
    /\ DOMAIN res.map = { "Address" }
    /\ res.map["Address"] = Addr("b", "b")

----------------------------------------------------------------------------
(* FromMap *)

\* C9: FromMap[T](m) returns a record of type T in which each declared field
\* f is m[f] when m has the key f with a value of a type assignable to the
\* type of f, and is zero otherwise; the other entries are dropped without
\* error.  (Stated of the maps without nil values; C10 is about those.)
C9_FromMapFields ==
    (op = "FromMap" /\ IsStruct(arg.T) /\ \A k \in DOMAIN arg.data : arg.data[k] # Nil) =>
        /\ ~res.fault
        /\ res.ok
        /\ rec.t = arg.T
        /\ \A i \in 1..Len(StructTypes[arg.T]) :
              LET f == StructTypes[arg.T][i]
              IN  IF /\ f.name \in DOMAIN arg.data
                     /\ Assignable(arg.data[f.name].t, f.type)
                  THEN Boxed(rec.v[i]) = Converted(arg.data[f.name], f.type)
                  ELSE rec.v[i] = Zero(f.type)

\* C10: FromMap reports success and never faults, whatever the keys and the
\* values of the map, nil values included, for every record type.
C10_FromMapAlwaysSucceeds ==
    (op = "FromMap" /\ IsStruct(arg.T)) => (res.ok /\ ~res.fault)

----------------------------------------------------------------------------
(* Pick and Omit *)

\* the fields of record type t whose name is in the list
Named_In(t, fields) ==
    { i \in 1..Len(StructTypes[t]) :
        \E k \in 1..Len(fields) : fields[k] = StructTypes[t][i].name }

\* C11: Pick(r, S) returns a new record of the type of r in which every field
\* named in S has the value it has in r and every other field is the zero
\* value of its type; Omit(r, S) one in which every field not named in S has
\* the value it has in r and every field named in S is zero.  Names that match
\* no field, names differing by case and duplicates change nothing; a nested
\* record is copied or zeroed as a whole.
C11_PickOmitFields ==
    (op \in { "Pick", "Omit" } /\ arg.form = "value") =>
        LET S    == Named_In(rec.t, arg.fields)
            kept == IF op = "Pick" THEN S ELSE (1..Len(StructTypes[rec.t])) \ S
        IN  /\ ~res.fault
            /\ res.val.t = rec.t
            /\ \A i \in 1..Len(StructTypes[rec.t]) :
                  res.val.v[i] = IF i \in kept THEN rec.v[i]
                                 ELSE Zero(StructTypes[rec.t][i].type)

\* C12: for a list S without unknown names, the fields Pick(r, S) populates
\* and the fields Omit(r, S) populates partition the declared fields: every
\* field has the value it has in r in one of the two records and is zero in
\* the other.
C12_PickOmitPartition ==
    (/\ op = "Pick"
     /\ arg.form = "value"
     /\ \A k \in 1..Len(arg.fields) : Declared(rec.t, arg.fields[k]) # {}) =>
        LET o == Omit("value", rec, arg.fields)
            S == Named_In(rec.t, arg.fields)
        IN  /\ ~res.fault
            /\ ~o.fault
            /\ \A i \in 1..Len(StructTypes[rec.t]) :
                  LET z == Zero(StructTypes[rec.t][i].type)
                  IN  IF i \in S
                      THEN res.val.v[i] = rec.v[i] /\ o.val.v[i] = z
                      ELSE o.val.v[i] = rec.v[i] /\ res.val.v[i] = z

----------------------------------------------------------------------------
(* Merge *)

\* the inputs of a Merge in which field i is not zero
NonZeroAt(structs, i) ==
    { k \in 1..Len(structs) : structs[k].v[i] # Zero(structs[k].v[i].t) }

\* C13: Merge(s1, ..., sn) returns a record in which each field has the value
\* it has in the last input in which it is not zero, and is zero when it is
\* zero in every input; a nested record is taken whole from that input.
C13_MergeLastNonZero ==
    (op = "Merge" /\ arg.form = "value") =>
        /\ ~res.fault
        /\ res.val.t = rec.t
        /\ \A i \in 1..Len(StructTypes[rec.t]) :
              LET nz == NonZeroAt(arg.structs, i)
              IN  IF nz = {}
                  THEN res.val.v[i] = Zero(StructTypes[rec.t][i].type)
                  ELSE res.val.v[i] =
                         arg.structs[CHOOSE k \in nz : \A m \in nz : m <= k].v[i]

\* C14: Merge of one input returns that input as it is, and Merge of no
\* input returns the zero value of the type.
C14_MergeSingleEmpty ==
    (op = "Merge" /\ Len(arg.structs) <= 1) =>
        /\ ~res.fault
        /\ IF Len(arg.structs) = 1
           THEN CASE arg.form \in { "value", "ref" } -> res.val = arg.structs[1]
                  [] arg.form = "nilref" -> res.val.v = 0
                  [] arg.form = "scalar" -> res.val = IntV(1)
           ELSE CASE arg.form = "value" ->
                       /\ res.val.t = rec.t
                       /\ \A i \in 1..Len(StructTypes[rec.t]) :
                             res.val.v[i] = Zero(StructTypes[rec.t][i].type)
                  [] arg.form \in { "ref", "nilref" } -> res.val.v = 0
                  [] arg.form = "scalar" -> res.val = IntV(0)

\* Merge of one record with an unexported field that is not zero has returned
\* it unchanged
C14_Witness ==
    /\ op = "Merge"
    /\ arg.form = "value"
    /\ arg.structs = <<Alice>>
    /\ ~res.fault
    /\ res.val = Alice

----------------------------------------------------------------------------
(* Clone *)

\* the value x with every reference in it replaced by what it refers to in
\* heap h: what reflect.DeepEqual compares
RECURSIVE Deep(_, _)
Deep(x, h) ==
    CASE Kind(x.t) = "struct" ->
            Val(x.t, [i \in 1..Len(x.v) |-> Deep(x.v[i], h)])
      [] Kind(x.t) = "ptr" ->
            IF x.v = 0 THEN Val(x.t, <<>>) ELSE Val(x.t, << Deep(h[x.v].x, h) >>)
      [] Kind(x.t) = "slice" ->
            IF x.v = <<>> THEN x
            ELSE Val(x.t, << [i \in 1..Len(h[x.v[1]].x) |-> Deep(h[x.v[1]].x[i], h)] >>)
      [] Kind(x.t) = "map" ->
            IF x.v = <<>> THEN x
            ELSE Val(x.t, << [key \in DOMAIN h[x.v[1]].x |-> Deep(h[x.v[1]].x[key], h)] >>)
      [] Kind(x.t) = "interface" ->
            IF x.v = <<>> THEN x ELSE Val(x.t, << Deep(x.v[1], h) >>)
      [] OTHER -> x

\* the addresses both x and y lead to at which something is stored (an array
\* without elements has no storage)
Shared(x, y, h) ==
    { a \in Refs(x, h) \cap Refs(y, h) : h[a].k = "array" => h[a].x # <<>> }

\* obj is a record or a reference to one
IsRecordInput(obj, h) ==
    \/ obj.t \in DOMAIN StructTypes
    \/ /\ obj.t \in { "*Address", "*Profile", "*int", "*Node", "*locked" }
       /\ obj.v # 0
       /\ h[obj.v].x.t \in DOMAIN StructTypes

\* CloneCase: Clone has been called with a record or a reference to one
CloneCase == op = "Clone" /\ IsRecordInput(prev.obj, prev.heap)

\* C15: for every record r, or reference to one, Clone(r) is deeply equal to
\* r at every level, no reference, slice or map the clone leads to has the
\* address of one r leads to, and for a reference the result is a new one.
C15_CloneDeepEqual ==
    CloneCase =>
        /\ ~res.fault
        /\ Deep(copy, heap) = Deep(prev.obj, prev.heap)
        /\ Shared(copy, prev.obj, heap) = {}
        /\ copy.t = prev.obj.t
        /\ IsStruct(prev.obj.t) \/ copy.v \notin 0..Len(prev.heap)
        /\ SubSeq(heap, 1, Len(prev.heap)) = prev.heap

\* C16: after c = Clone(r), an assignment to a field of r, through a
\* reference r leads to, to an element of one of its slices or an entry of
\* one of its maps leaves every value c leads to as it was, and such an
\* assignment to c leaves r as it was; so does any sequence of them.
C16_CloneIndependent ==
    op = "Mutate" =>
        IF arg.side = "original"
        THEN /\ copy = prev.copy
             /\ Deep(copy, heap) = Deep(prev.copy, prev.heap)
        ELSE /\ rec = prev.obj
             /\ Deep(rec, heap) = Deep(prev.obj, prev.heap)

\* after two assignments through references of the original (to the Address
\* it points to and to the one its slice of pointers leads to) the clone has
\* the values the original had
C16_Witness ==
    /\ op = "Mutate"
    /\ arg.side = "original"
    /\ nwrites = 2
    /\ rec = Carol
    /\ heap[1] # CarolHeap[1]
    /\ heap[3] # CarolHeap[3]
    /\ Deep(rec, heap) # Deep(Carol, CarolHeap)
    /\ Deep(copy, heap) = Deep(Carol, CarolHeap)

\* C17: Clone of what is neither a record nor a reference to one (a string,
\* a number, a boolean, a slice, a map, a nil reference, a reference to a
\* number) returns the zero value of its type and does not fault.
C17_CloneNonRecord ==
    (op = "Clone" /\ ~IsRecordInput(prev.obj, prev.heap)) =>
        /\ ~res.fault
        /\ copy.t = prev.obj.t
        /\ copy.v = CASE prev.obj.t = "string" -> ""
                      [] prev.obj.t = "int"    -> 0
                      [] prev.obj.t = "bool"   -> FALSE
                      [] prev.obj.t \in { "*Address", "*Profile", "*int" } -> 0
                      [] OTHER -> <<>>
        /\ heap = prev.heap

\* Clone of a slice of two strings has returned the nil slice
C17_Witness ==
    /\ op = "Clone"
    /\ arg.depth = 1
    /\ prev.obj = Val("[]string", <<2>>)
    /\ Len(prev.heap[2].x) = 2
    /\ ~res.fault
    /\ copy = Val("[]string", <<>>)

\* C18: for every record x, Clone(Clone(x)) is deeply equal to Clone(x) and
\* to x, and its references are not those of Clone(x).
C18_CloneOfClone ==
    /\ (CloneCase /\ arg.depth = 1) => ~res.fault
    /\ (CloneCase /\ arg.depth = 2) =>
          /\ ~res.fault
          /\ Deep(copy, heap) = Deep(prev.obj, prev.heap)
          /\ Deep(copy, heap) = Deep(rec, heap)
          /\ Shared(copy, prev.obj, heap) = {}
          /\ Shared(copy, rec, heap) = {}

----------------------------------------------------------------------------
(* Paths through a pointer *)

\* the call names a path of several segments whose first is Home, the field
\* of Person that is a pointer to an Address
ThroughPointer ==
    /\ op \in { "Get", "Has", "Set" }
    /\ OnRecord
    /\ Len(arg.path) >= 2
    /\ arg.path[1] = "Home"

\* the Address the Home of record r points to
HomeOf(r) == heap[r.v[4].v].x

\* C19 as stated: Get, and by the same traversal Has and Set, resolves a
\* path through a field, not the last, whose value is a non-nil reference to
\* a record: the path is found when the segments left resolve in the record
\* referred to.
C19_PointerFollowedAsStated ==
    (/\ ThroughPointer
     /\ prev.v[4].v # 0
     /\ Walk("Address", Tail(arg.path)).st = "field") =>
        CASE op = "Get" ->
                res = GetRes(Lookup(HomeOf(prev), Tail(arg.path)), TRUE, FALSE)
          [] op = "Has" -> res.has
          [] op = "Set" ->
                Assignable(arg.value.t, Walk("Address", Tail(arg.path)).type)
                    => res.err = ""

\* C19 amended: a field that is a reference to a record, nil or not, is not
\* dereferenced when it is not the last segment of the path: Get returns
\* (nil, false), Has returns false and Set returns a failure and changes
\* neither the record nor the record referred to.  Only the argument itself
\* is dereferenced.
C19_PointerNotFollowed ==
    ThroughPointer =>
        CASE op = "Get" -> res = NotFound
          [] op = "Has" -> res.has = FALSE
          [] op = "Set" ->
                /\ res.err # ""
                /\ ~res.fault
                /\ rec = prev
                /\ heap = HomeHeap

\* "Home.City" has been asked, through a reference, of a person whose Home
\* points to an Address with a City, and is not found
C19_Witness ==
    /\ ThroughPointer
    /\ op = "Has"
    /\ arg.form = "ref"
    /\ arg.path = <<"Home", "City">>
    /\ rec.v[4] = Ptr(1)
    /\ Lookup(HomeOf(rec), <<"City">>) = StrV("b")
    /\ res.has = FALSE
    /\ Get("ref", rec, <<"Home">>) = GetRes(Ptr(1), TRUE, FALSE)

----------------------------------------------------------------------------
(* Set and faults *)

\* C20: every call of Set returns success or a failure and never faults,
\* whatever the record argument (a reference, a record by value, a nil
\* reference, not a record), the path and the value, nil included; a target
\* or an intermediate field that cannot be set yields a failure, not a fault
\* and not a write to a copy.
C20_SetNeverFaults ==
    op = "Set" =>
        /\ ~res.fault
        /\ arg.form # "ref" => res.err # ""
        /\ res.err # "" => rec = prev

----------------------------------------------------------------------------
(* Get and the form of its argument *)

\* C21: Get on a reference to a record scans the record referred to as it
\* scans the record passed by value, and Get on a nil reference, or on what
\* is not a record, returns found = false without fault, for every path.
C21_GetDereferences ==
    op = "Get" =>
        CASE arg.form = "ref" ->
                /\ res = Get("value", rec, arg.path)
                /\ (Walk(rec.t, arg.path).st = "field" /\ ~res.fault) =>
                      res = GetRes(Boxed(Lookup(rec, arg.path)), TRUE, FALSE)
          [] arg.form \in { "nilref", "scalar" } -> res = NotFound
          [] OTHER -> TRUE

\* a nested field has been read through a reference to the person
C21_Witness ==
    /\ op = "Get"
    /\ arg.form = "ref"
    /\ arg.path = <<"User", "Address", "City">>
    /\ rec = Alice
    /\ res = GetRes(StrV("b"), TRUE, FALSE)
    /\ Get("nilref", rec, arg.path) = NotFound

----------------------------------------------------------------------------
(* Pointer inputs *)

\* C22: every record operation works with value and pointer inputs: given a
\* reference to a record that is not nil, Pick, Omit and Merge complete
\* without fault wherever they do for the record itself, and the value
\* returned has the fields of the value returned for the record.
C22_PointerInputs ==
    (op \in { "Pick", "Omit", "Merge" } /\ arg.form = "ref") =>
        LET byValue == CASE op = "Pick"  -> Pick("value", rec, arg.fields)
                         [] op = "Omit"  -> Omit("value", rec, arg.fields)
                         [] op = "Merge" -> Merge("value", rec.t, arg.structs)
        IN  ~byValue.fault => (~res.fault /\ res.val = byValue.val)

----------------------------------------------------------------------------
(* Compose and the slice functions *)

\* f1(f2(...fn(x)...)), read off the list from its head
RECURSIVE Nested(_, _)
Nested(fns, x) ==
    IF fns = <<>> THEN x ELSE Apply(Head(fns), Nested(Tail(fns), x))

\* the number of elements of xs equal to v
Count(xs, v) == Cardinality({ i \in 1..Len(xs) : xs[i] = v })

\* in xs no element comes after an element that fn places after it
Sorted(fn, xs) ==
    \A i, j \in 1..Len(xs) : i < j => ~Less(fn, xs[j], xs[i])

\* C23: Compose(f1, ..., fn)(x) = f1(f2(...fn(x)...)) for every x: the
\* functions are applied from right to left; with a single function the
\* composition equals that function and with no functions it returns its
\* input unchanged.
C23_ComposeRightToLeft ==
    op = "Compose" =>
        /\ res = Nested(arg.fns, arg.x)
        /\ Len(arg.fns) = 1 => res = Apply(arg.fns[1], arg.x)
        /\ Len(arg.fns) = 0 => res = arg.x

\* Compose(square, addOne, double)(5) = ((5 * 2) + 1)^2 = 121
C23_Witness ==
    /\ op = "Compose"
    /\ arg.fns = <<"square", "addOne", "double">>
    /\ arg.x = 5
    /\ res = 121

\* C24: for every slice s, duplicates allowed, and every strict total order
\* fn, SortBy(fn, s) returns a new slice that is a permutation of s in which
\* no element comes after an element that fn places after it, and s itself is
\* unchanged, also by what is then written to the result; package rslice
\* (bubble sort) and package ramda give the same result.
C24_SortBySortedPermutation ==
    /\ op = "SortBy" =>
          LET out == Elements(copy, heap)
          IN  /\ \A v \in 0..(MaxLen + 1) : Count(out, v) = Count(prev, v)
              /\ Sorted(arg.fn, out)
              /\ Elements(rec, heap) = prev
              /\ copy.ptr # 0 /\ copy.ptr # rec.ptr
              /\ out = Elements(SortBy(arg.fn, rec, heap).s, SortBy(arg.fn, rec, heap).h)
              /\ out = Elements(rslice_SortBy(arg.fn, rec, heap).s,
                                rslice_SortBy(arg.fn, rec, heap).h)
    /\ (op \in { "Write", "Append" } /\ arg.of = "SortBy") =>
          Elements(rec, heap) = prev

\* package rslice has sorted a slice with a duplicate, in descending order
C24_Witness ==
    /\ op = "SortBy"
    /\ arg.pkg = "rslice"
    /\ arg.fn = "gt"
    /\ prev = <<1, 3, 1>>
    /\ Elements(copy, heap) = <<3, 1, 1>>

\* C30: the slice returned by Take(n, s) and by Drop(n, s) shares no backing
\* storage with s, in package ramda as in package rslice: writing to an
\* element of the result, or appending to it, never changes an element of s,
\* and the two packages return results with the same elements.
C30_TakeDropShareNothing ==
    /\ (op \in { "Write", "Append" } /\ arg.of \in { "Take", "Drop" }) =>
          Elements(rec, heap) = prev
    /\ op = "Take" =>
          Elements(Take(arg.n, rec, heap).s, Take(arg.n, rec, heap).h)
            = Elements(rslice_Take(arg.n, rec, heap).s, rslice_Take(arg.n, rec, heap).h)
    /\ op = "Drop" =>
          Elements(Drop(arg.n, rec, heap).s, Drop(arg.n, rec, heap).h)
            = Elements(rslice_Drop(arg.n, rec, heap).s, rslice_Drop(arg.n, rec, heap).h)

----------------------------------------------------------------------------
(* Clone: absence and emptiness *)

\* x in heap h0 and its copy y in heap h1 are absent at the same places and
\* empty at the same places, at every level: a nil reference, slice, map or
\* interface is copied to a nil one, and a slice or map that is not nil to a
\* new one of the same length or with the same keys
RECURSIVE ShapeKept(_, _, _, _)
ShapeKept(x, y, h0, h1) ==
    /\ y.t = x.t
    /\ CASE Kind(x.t) = "struct" ->
               \A i \in 1..Len(x.v) : ShapeKept(x.v[i], y.v[i], h0, h1)
         [] Kind(x.t) = "ptr" ->
               /\ (x.v = 0) <=> (y.v = 0)
               /\ x.v # 0 =>
                     /\ y.v \notin 1..Len(h0)
                     /\ ShapeKept(h0[x.v].x, h1[y.v].x, h0, h1)
         [] Kind(x.t) = "slice" ->
               /\ (x.v = <<>>) <=> (y.v = <<>>)
               /\ x.v # <<>> =>
                     /\ y.v[1] \notin 1..Len(h0)
                     /\ h1[y.v[1]].k = "array"
                     /\ Len(h1[y.v[1]].x) = Len(h0[x.v[1]].x)
                     /\ \A i \in 1..Len(h0[x.v[1]].x) :
                           ShapeKept(h0[x.v[1]].x[i], h1[y.v[1]].x[i], h0, h1)
         [] Kind(x.t) = "map" ->
               /\ (x.v = <<>>) <=> (y.v = <<>>)
               /\ x.v # <<>> =>
                     /\ y.v[1] \notin 1..Len(h0)
                     /\ h1[y.v[1]].k = "map"
                     /\ DOMAIN h1[y.v[1]].x = DOMAIN h0[x.v[1]].x
                     /\ \A key \in DOMAIN h0[x.v[1]].x :
                           ShapeKept(h0[x.v[1]].x[key], h1[y.v[1]].x[key], h0, h1)
         [] Kind(x.t) = "interface" ->
               /\ (x.v = <<>>) <=> (y.v = <<>>)
               /\ x.v # <<>> => ShapeKept(x.v[1], y.v[1], h0, h1)
         [] OTHER -> TRUE

\* C25: Clone preserves absence and emptiness per shape: in the clone of a
\* record a nil reference is a nil reference, a nil slice a nil slice, a nil
\* map a nil map and an empty interface an empty one, and a slice or map that
\* is empty and not nil is a new empty one that is not nil; a nil reference
\* handed to Clone comes back nil.
C25_CloneKeepsNilAndEmpty ==
    /\ (CloneCase /\ ~res.fault) =>
          /\ ShapeKept(prev.obj, copy, prev.heap, heap)
    /\ (op = "Clone" /\ Kind(prev.obj.t) = "ptr" /\ prev.obj.v = 0) =>
          (~res.fault /\ copy = prev.obj)

\* the clone of a profile whose slice of tags and whose map are empty and
\* not nil, and whose reference and slice of friends are nil
C25_Witness ==
    /\ op = "Clone"
    /\ prev.obj = Dave
    /\ ~res.fault
    /\ copy.v[2].v = 0
    /\ copy.v[3].v # <<>> /\ copy.v[3].v # Dave.v[3].v
    /\ heap[copy.v[3].v[1]] = Array(<<>>)
    /\ copy.v[4].v = <<>>
    /\ copy.v[5].v # <<>> /\ heap[copy.v[5].v[1]] = Table(<< >>)

----------------------------------------------------------------------------
(* Clone: termination *)

\* the addresses the value x holds itself, not through the heap
RECURSIVE Direct(_)
Direct(x) ==
    CASE Kind(x.t) = "struct" -> UNION { Direct(x.v[i]) : i \in 1..Len(x.v) }
      [] Kind(x.t) = "ptr" -> IF x.v = 0 THEN {} ELSE { x.v }
      [] Kind(x.t) \in { "slice", "map" } -> IF x.v = <<>> THEN {} ELSE { x.v[1] }
      [] Kind(x.t) = "interface" -> IF x.v = <<>> THEN {} ELSE Direct(x.v[1])
      [] OTHER -> {}

\* the addresses the cell c holds
InCell(c) ==
    CASE c.k = "var"   -> Direct(c.x)
      [] c.k = "array" -> UNION { Direct(c.x[i]) : i \in 1..Len(c.x) }
      [] c.k = "map"   -> UNION { Direct(c.x[key]) : key \in DOMAIN c.x }

\* the addresses the addresses of S lead to in heap h, S included
RECURSIVE Closure(_, _)
Closure(S, h) ==
    LET T == S \cup UNION { InCell(h[a]) : a \in S }
    IN  IF T = S THEN S ELSE Closure(T, h)

\* the value graph of x in heap h has no reference cycle: no address x leads
\* to is led to by what is stored at it
Acyclic(x, h) ==
    \A a \in Closure(Direct(x), h) : a \notin Closure(InCell(h[a]), h)

\* C26: Clone terminates exactly when the value graph its record input leads
\* to is acyclic: on an acyclic graph the recursion finishes, without fault,
\* after visiting every value the input leads to, and on a graph with a
\* reference cycle it never finishes and reports no error.
C26_TerminatesIffAcyclic ==
    /\ (IsRecordInput(rec, heap) /\ Acyclic(rec, heap)) =>
          <>(/\ op = "done"
             /\ ~res.fault
             /\ prev = Closure(Direct(rec), heap))
    /\ [](~Acyclic(rec, heap) => (op \notin { "done", "panic" } /\ ~res.fault))

----------------------------------------------------------------------------
(* ToMap and FromMap, one after the other *)

\* every field of type t is exported
AllAccessible(t) == \A i \in 1..Len(StructTypes[t]) : StructTypes[t][i].exported

\* C27: for every record r whose fields are all accessible,
\* FromMap[T](ToMap(r)) reports success and returns a record equal to r field
\* by field: the fields ToMap drops as zero are the fields FromMap leaves at
\* zero, and every value ToMap emits is assigned back to its field.
C27_ToMapFromMapRoundTrip ==
    (op = "RoundTrip" /\ AllAccessible(rec.t)) =>
        /\ ~res.fault
        /\ res.ok
        /\ res.val.t = rec.t
        /\ \A i \in 1..Len(StructTypes[rec.t]) :
              /\ res.val.v[i] = rec.v[i]
              /\ (StructTypes[rec.t][i].name \in DOMAIN ToMap(arg.form, rec))
                    <=> rec.v[i] # Zero(StructTypes[rec.t][i].type)

\* a profile with a name and a number in its interface field, every other
\* field zero, has come back from its map
C27_Witness ==
    /\ op = "RoundTrip"
    /\ rec = Val("Profile", << StrV("b"), Val("*Address", 0), Val("[]string", <<>>),
                               Val("[]*Address", <<>>),
                               Val("map[string]*Address", <<>>), AnyOf(IntV(1)) >>)
    /\ DOMAIN ToMap(arg.form, rec) = { "Name", "Meta" }
    /\ res.ok
    /\ res.val = rec

----------------------------------------------------------------------------
(* Pick, Omit and Merge, one after the other *)

\* C28: for every record r passed by value and every list S of field names,
\* unknown names included, Merge(Pick(r, S), Omit(r, S)) equals r field by
\* field, and so does Merge(Omit(r, S), Pick(r, S)).
C28_PickOmitMerge ==
    op = "Recombine" =>
        /\ ~res.fault
        /\ res.val.t = rec.t
        /\ \A i \in 1..Len(StructTypes[rec.t]) : res.val.v[i] = rec.v[i]

----------------------------------------------------------------------------
(* Clone: aliasing *)

\* the record obj is or refers to
Root(obj, h) == IF Kind(obj.t) = "ptr" THEN h[obj.v].x ELSE obj

Place(f, i, k) == [f |-> f, i |-> i, k |-> k]

\* the places of the profile x that hold a reference to an Address, each with
\* the address it holds (0 for nil): Home, the elements of Friends, the
\* entries of Data and Meta
Pointers(x, h) ==
    LET friends == IF x.v[4].v = <<>> THEN <<>> ELSE h[x.v[4].v[1]].x
        data    == IF x.v[5].v = <<>> THEN << >> ELSE h[x.v[5].v[1]].x
        meta    == IF x.v[6].v # <<>> /\ x.v[6].v[1].t = "*Address"
                   THEN { Place("Meta", 0, "") } ELSE {}
        places  == { Place("Home", 0, "") }
                     \cup { Place("Friends", i, "") : i \in DOMAIN friends }
                     \cup { Place("Data", 0, key) : key \in DOMAIN data }
                     \cup meta
    IN  [p \in places |->
            CASE p.f = "Home"    -> x.v[2].v
              [] p.f = "Friends" -> friends[p.i].v
              [] p.f = "Data"    -> data[p.k].v
              [] p.f = "Meta"    -> x.v[6].v[1].v]

\* the record Clone was called with, or the clone, is a profile
OfProfile(obj, h) ==
    /\ IsRecordInput(obj, h)
    /\ Root(obj, h).t = "Profile"

\* C29: Clone does not preserve aliasing inside the source: when two places
\* of r hold references to the same pointee, the same places of Clone(r)
\* hold references to two distinct new pointees; a write through one of them
\* in the clone is not visible through the other, and in r it is.
C29_CloneSplitsAliases ==
    /\ (CloneCase /\ ~res.fault /\ OfProfile(prev.obj, prev.heap)) =>
          LET P == Pointers(Root(prev.obj, prev.heap), prev.heap)
              Q == Pointers(Root(copy, heap), heap)
          IN  /\ DOMAIN Q = DOMAIN P
              /\ \A p, q \in DOMAIN P :
                    (p # q /\ P[p] # 0 /\ P[p] = P[q]) =>
                        /\ Q[p] # Q[q]
                        /\ Q[p] \notin 0..Len(prev.heap)
                        /\ Q[q] \notin 0..Len(prev.heap)
                        /\ heap[Q[p]] = heap[Q[q]]
    /\ (op = "Mutate" /\ arg.at # 0 /\ heap[arg.at].k = "var") =>
          LET side == IF arg.side = "clone" THEN prev.copy ELSE prev.obj
              P    == IF OfProfile(side, prev.heap)
                      THEN Pointers(Root(side, prev.heap), prev.heap) ELSE << >>
              old  == Pointers(Root(prev.obj, prev.heap), prev.heap)
          IN  \A p, q \in DOMAIN P :
                  (p # q /\ P[p] = arg.at /\ P[q] # 0) =>
                      IF arg.side = "clone" /\ OfProfile(prev.obj, prev.heap)
                         /\ p \in DOMAIN old /\ q \in DOMAIN old
                      THEN heap[P[q]] = prev.heap[P[q]]
                      ELSE P[q] = arg.at => heap[P[q]] # prev.heap[P[q]]

\* after Clone of the profile whose references all lead to one Address, the
\* Address the clone's Home points to has been written to, and the Address
\* its first friend points to is as it was
C29_Witness ==
    /\ op = "Mutate"
    /\ arg.side = "clone"
    /\ rec = Erin
    /\ arg.at = copy.v[2].v
    /\ heap[copy.v[2].v] # prev.heap[copy.v[2].v]
    /\ heap[heap[copy.v[4].v[1]].x[1].v] = Var(Addr("a", "b"))
    /\ heap[1] = Var(Addr("a", "b"))

====
